------------------------------ MODULE AliceBob ------------------------------
(***************************************************************************)
(* The two threads of COMP7402 assignment 4.  Bob reads a line, encrypts   *)
(* it into enc_result and waits; Alice decrypts and prints it.  They share *)
(* a mutex, one condition variable and the flags ready and processed.      *)
(*                                                                         *)
(* A thread is where it stands in its loop: "lock" before the mutex,       *)
(* "waiting" in cv.wait with the mutex released, "woken" when notified or  *)
(* woken for no reason, "input" while Bob reads with the mutex held.       *)
(***************************************************************************)
EXTENDS Naturals, Sequences, SequenceTheorems, TLAPS

CONSTANTS
  Typed,       \* the lines the user types, in order; "" is an empty line
  MayInterrupt \* whether the user may type Ctrl+C

ASSUME TypedAssumption == Typed \in Seq(STRING)

VARIABLES
  bob, alice,             \* where each thread stands
  mtx,                    \* "bob", "alice" or "free"
  ready, processed,
  enc_result, dec_result, \* << >> and "" when clear
  unread,                 \* lines not read yet
  accepted, printed,      \* lines that Bob took and that Alice printed
  exited                  \* my_handler ended the process

handoffVars ==
  <<bob, alice, mtx, ready, processed, enc_result, dec_result, unread, accepted, printed, exited>>

HandoffInit ==
  /\ bob = "lock" /\ alice = "lock" /\ mtx = "free"
  /\ ready = FALSE /\ processed = FALSE
  /\ enc_result = << >> /\ dec_result = ""
  /\ unread = Typed /\ accepted = << >> /\ printed = << >>
  /\ exited = FALSE

(* exchangePublicKey gives both the same secret, and the cipher with one   *)
(* key and one vector undoes itself.                                       *)
encrypt(text) == <<"AES-256-CBC", "shared secret", text>>
decrypt(cipher) == cipher[3]

(* Fault: nobody is notified.                                              *)
NotifyNobody(thread) == thread
NotifyOne(thread) == IF thread = "waiting" THEN "woken" ELSE thread

(* Bob takes the mutex and asks for a line.                                *)
BobLock ==
  /\ bob = "lock" /\ mtx = "free"
  /\ mtx' = "bob" /\ bob' = "input"
  /\ UNCHANGED <<alice, ready, processed, enc_result, dec_result, unread, accepted, printed, exited>>

(* getInput asks again for an empty line.  At the end of the input it asks *)
(* for ever, and Bob never lets the mutex go.                              *)
SkipEmptyLine ==
  /\ bob = "input" /\ unread # << >> /\ Head(unread) = ""
  /\ unread' = Tail(unread)
  /\ UNCHANGED <<bob, alice, mtx, ready, processed, enc_result, dec_result, accepted, printed, exited>>

(* The line is encrypted, ready is set, Alice notified; if processed is    *)
(* not set, cv.wait releases the mutex.                                    *)
BobEncrypts ==
  /\ bob = "input" /\ unread # << >> /\ Head(unread) # ""
  /\ enc_result' = encrypt(Head(unread))
  /\ accepted' = Append(accepted, Head(unread)) /\ unread' = Tail(unread)
  /\ ready' = TRUE
  /\ alice' = NotifyOne(alice)
  /\ IF processed THEN bob' = "done" /\ UNCHANGED mtx ELSE bob' = "waiting" /\ mtx' = "free"
  /\ UNCHANGED <<processed, dec_result, printed, exited>>

(* Fault: cv.wait without its condition.                                   *)
BobWakesUnchecked ==
  /\ bob = "woken" /\ mtx = "free"
  /\ bob' = "done" /\ mtx' = "bob"
  /\ UNCHANGED <<alice, ready, processed, enc_result, dec_result, unread, accepted, printed, exited>>

(* A thread that was woken takes the mutex and looks at its condition.     *)
BobWakes ==
  /\ bob = "woken" /\ mtx = "free"
  /\ IF processed THEN bob' = "done" /\ mtx' = "bob" ELSE bob' = "waiting" /\ UNCHANGED mtx
  /\ UNCHANGED <<alice, ready, processed, enc_result, dec_result, unread, accepted, printed, exited>>

(* The end of Bob's turn, where the mutex is released.                     *)
BobClears ==
  /\ bob = "done"
  /\ processed' = FALSE /\ dec_result' = ""
  /\ mtx' = "free" /\ bob' = "lock"
  /\ UNCHANGED <<alice, ready, enc_result, unread, accepted, printed, exited>>

(* Fault: the cipher is not cleared.                                       *)
AliceDecryptsKeepsResult ==
  /\ dec_result' = decrypt(enc_result)
  /\ printed' = Append(printed, decrypt(enc_result))
  /\ ready' = FALSE /\ processed' = TRUE
  /\ bob' = IF bob = "waiting" THEN "woken" ELSE bob
  /\ UNCHANGED enc_result
  /\ alice' = "lock"

(* Alice, holding the mutex, finds ready set: she decrypts and prints,     *)
(* hands over and clears, and releases the mutex.                          *)
AliceDecrypts ==
  /\ dec_result' = decrypt(enc_result)
  /\ printed' = Append(printed, decrypt(enc_result))
  /\ ready' = FALSE /\ processed' = TRUE
  /\ bob' = NotifyOne(bob)
  /\ enc_result' = << >>
  /\ alice' = "lock"

AliceTurns(from) ==
  /\ alice = from /\ mtx = "free"
  /\ \/ ready /\ AliceDecrypts
     \/ ~ready /\ alice' = "waiting"
        /\ UNCHANGED <<bob, ready, processed, enc_result, dec_result, printed>>
  /\ UNCHANGED <<mtx, unread, accepted, exited>>
AliceLock  == AliceTurns("lock")
AliceWakes == AliceTurns("woken")

(* A condition variable may wake a thread that nobody notified.            *)
SpuriousWake ==
  /\ \/ bob = "waiting" /\ bob' = "woken" /\ UNCHANGED alice
     \/ alice = "waiting" /\ alice' = "woken" /\ UNCHANGED bob
  /\ UNCHANGED <<mtx, ready, processed, enc_result, dec_result, unread, accepted, printed, exited>>

(* Ctrl+C ends the process: my_handler does once Bob has installed it, and *)
(* before that nobody catches the signal.                                  *)
Interrupt ==
  /\ MayInterrupt
  /\ exited' = TRUE
  /\ UNCHANGED <<bob, alice, mtx, ready, processed, enc_result, dec_result, unread, accepted, printed>>

ThreadStep ==
  \/ BobLock \/ SkipEmptyLine \/ BobEncrypts \/ BobWakes \/ BobClears \/ AliceLock \/ AliceWakes

HandoffNext == ~exited /\ (ThreadStep \/ SpuriousWake \/ Interrupt)

(* Each thread runs on when it can.  Alice holds the mutex within a step   *)
(* only, so that a thread that waits for it can always take the next.      *)
BobStep == ~exited /\ (BobLock \/ SkipEmptyLine \/ BobEncrypts \/ BobWakes \/ BobClears)
AliceStep == ~exited /\ (AliceLock \/ AliceWakes)
HandoffFair == WF_handoffVars(BobStep) /\ WF_handoffVars(AliceStep)

-----------------------------------------------------------------------------

(* The lines that Bob accepts and Alice prints, as a channel of one place. *)
Slot == INSTANCE OneSlot WITH Items <- {Typed[n] : n \in DOMAIN Typed}, sent <- accepted, received <- printed
HandedOver == Slot!Spec

(* Only the holder of the mutex reads; a cipher is there exactly while     *)
(* Alice is to decrypt it, and the flags are never set together.           *)
HandoffTypeOK ==
  /\ mtx \in {"free", "bob"} /\ (mtx = "bob" <=> bob \in {"input", "done"})
  /\ ready <=> enc_result # << >>
  /\ ~(ready /\ processed)

(* Every line that was typed is printed, unless the process is ended.      *)
LinesOf(lines) == SelectSeq(lines, LAMBDA l : l # "")
AllHandedOver == <>(exited \/ printed = LinesOf(Typed))

-----------------------------------------------------------------------------
(* The two threads hand over every line once and in order, whatever the    *)
(* user types, however often a thread is woken for nothing and wherever    *)
(* the process is ended.                                                   *)

TypedLines == {Typed[n] : n \in DOMAIN Typed}

(* Where each thread may stand for the flags to be as they are: ready is   *)
(* set from Bob's encryption until Alice takes it, processed from then     *)
(* until Bob clears it, and Bob reads a line in neither case.              *)
ThreadPlaces ==
  /\ bob \in {"lock", "input", "waiting", "woken", "done"}
  /\ alice \in {"lock", "waiting", "woken"}
  /\ ready => bob \in {"waiting", "woken"}
  /\ processed => bob \in {"waiting", "woken", "done"}
  /\ bob = "done" => processed

(* Alice is behind Bob by the line in the cipher.                          *)
AliceBehind ==
  /\ ready => \E line \in TypedLines : enc_result = encrypt(line) /\ accepted = Append(printed, line)
  /\ ~ready => accepted = printed

HandedLines ==
  /\ unread \in Seq(TypedLines)
  /\ accepted \in Seq(TypedLines)
  /\ printed \in Seq(TypedLines)

FlagValues == ready \in BOOLEAN /\ processed \in BOOLEAN

HandoffInv == HandoffTypeOK /\ FlagValues /\ ThreadPlaces /\ AliceBehind /\ HandedLines

HandoffSpec == HandoffInit /\ [][HandoffNext]_handoffVars

-----------------------------------------------------------------------------

(* Bob takes one of the typed lines, and leaves typed lines. *)
LEMMA NextTypedLine ==
  unread \in Seq(TypedLines) /\ unread # << >>
    => Head(unread) \in TypedLines /\ Tail(unread) \in Seq(TypedLines)
BY HeadTailProperties

(* A sequence is one of its own elements. *)
LEMMA TypedIsLines == Typed \in Seq(TypedLines)
BY TypedAssumption DEF TypedLines

(* What was encrypted is decrypted, and is not empty. *)
LEMMA CipherOpens == \A line : decrypt(encrypt(line)) = line /\ encrypt(line) # << >>
BY DEF decrypt, encrypt

(* The initial state. *)
LEMMA HandoffInitInv == HandoffInit => HandoffInv
<1> SUFFICES ASSUME HandoffInit PROVE HandoffInv
  OBVIOUS
<1>1. HandoffTypeOK /\ FlagValues /\ ThreadPlaces
  BY DEF HandoffInit, HandoffTypeOK, FlagValues, ThreadPlaces
<1>2. AliceBehind
  BY DEF HandoffInit, AliceBehind
<1>3. HandedLines
  BY TypedIsLines, EmptySeq DEF HandoffInit, HandedLines
<1> QED
  BY <1>1, <1>2, <1>3 DEF HandoffInv

(* Every step keeps it, one step of the proof per action. *)
LEMMA HandoffNextInv == HandoffInv /\ [HandoffNext]_handoffVars => HandoffInv'
<1> SUFFICES ASSUME HandoffInv, [HandoffNext]_handoffVars PROVE HandoffInv'
  OBVIOUS
<1> USE DEF HandoffInv
<1>1. CASE BobLock
  <2>1. HandoffTypeOK' /\ FlagValues' /\ ThreadPlaces'
    BY <1>1 DEF BobLock, HandoffTypeOK, FlagValues, ThreadPlaces
  <2>2. AliceBehind' /\ HandedLines'
    BY <1>1 DEF BobLock, AliceBehind, HandedLines
  <2> QED BY <2>1, <2>2
<1>2. CASE SkipEmptyLine
  <2>1. HandoffTypeOK' /\ FlagValues' /\ ThreadPlaces'
    BY <1>2 DEF SkipEmptyLine, HandoffTypeOK, FlagValues, ThreadPlaces
  <2>2. AliceBehind'
    BY <1>2 DEF SkipEmptyLine, AliceBehind
  <2>3. HandedLines'
    BY <1>2, NextTypedLine DEF SkipEmptyLine, HandedLines
  <2> QED BY <2>1, <2>2, <2>3
<1>3. CASE BobEncrypts
  <2>1. ~ready /\ ~processed /\ accepted = printed /\ mtx = "bob"
    BY <1>3 DEF BobEncrypts, ThreadPlaces, AliceBehind, HandoffTypeOK
  <2>2. bob' = "waiting" /\ mtx' = "free" /\ ready' = TRUE /\ processed' = FALSE
    BY <1>3, <2>1 DEF BobEncrypts, FlagValues
  <2>3. Head(unread) \in TypedLines /\ Tail(unread) \in Seq(TypedLines)
    BY <1>3, NextTypedLine DEF BobEncrypts, HandedLines
  <2>4. enc_result' # << >>
    BY <1>3, CipherOpens DEF BobEncrypts
  <2>5. HandoffTypeOK' /\ FlagValues'
    BY <2>2, <2>4 DEF HandoffTypeOK, FlagValues
  <2>6. ThreadPlaces'
    BY <1>3, <2>2 DEF BobEncrypts, NotifyOne, ThreadPlaces
  <2>7. accepted' = Append(printed', Head(unread)) /\ enc_result' = encrypt(Head(unread))
    BY <1>3, <2>1 DEF BobEncrypts
  <2>8. AliceBehind'
    BY <2>2, <2>3, <2>7 DEF AliceBehind, TypedLines
  <2>9. HandedLines'
    BY <1>3, <2>3, AppendProperties DEF BobEncrypts, HandedLines
  <2> QED BY <2>5, <2>6, <2>8, <2>9
<1>4. CASE BobWakes
  <2>1. HandoffTypeOK' /\ FlagValues' /\ ThreadPlaces'
    BY <1>4 DEF BobWakes, HandoffTypeOK, FlagValues, ThreadPlaces
  <2>2. AliceBehind' /\ HandedLines'
    BY <1>4 DEF BobWakes, AliceBehind, HandedLines
  <2> QED BY <2>1, <2>2
<1>5. CASE BobClears
  <2>1. HandoffTypeOK' /\ FlagValues' /\ ThreadPlaces'
    BY <1>5 DEF BobClears, HandoffTypeOK, FlagValues, ThreadPlaces
  <2>2. AliceBehind' /\ HandedLines'
    BY <1>5 DEF BobClears, AliceBehind, HandedLines
  <2> QED BY <2>1, <2>2
<1>6. ASSUME NEW from \in {"lock", "woken"}, AliceTurns(from) PROVE HandoffInv'
  <2>1. CASE ready /\ AliceDecrypts
    <3>1. PICK line \in TypedLines : enc_result = encrypt(line) /\ accepted = Append(printed, line)
      BY <2>1 DEF AliceBehind
    <3>2. printed' = Append(printed, line) /\ accepted' = accepted
      BY <1>6, <2>1, <3>1, CipherOpens DEF AliceTurns, AliceDecrypts
    <3>3. bob' \in {"waiting", "woken"} /\ alice' = "lock" /\ mtx' = "free"
      BY <1>6, <2>1 DEF AliceTurns, AliceDecrypts, NotifyOne, ThreadPlaces
    <3>4. ready' = FALSE /\ processed' = TRUE /\ enc_result' = << >>
      BY <2>1 DEF AliceDecrypts
    <3>5. HandoffTypeOK' /\ FlagValues' /\ ThreadPlaces'
      BY <3>3, <3>4 DEF HandoffTypeOK, FlagValues, ThreadPlaces
    <3>6. AliceBehind'
      BY <3>1, <3>2, <3>4 DEF AliceBehind
    <3>7. HandedLines'
      BY <1>6, <3>1, <3>2 DEF AliceTurns, HandedLines
    <3> QED BY <3>5, <3>6, <3>7
  <2>2. CASE ~ready /\ alice' = "waiting"
              /\ UNCHANGED <<bob, ready, processed, enc_result, dec_result, printed>>
    <3>1. HandoffTypeOK' /\ FlagValues' /\ ThreadPlaces'
      BY <1>6, <2>2 DEF AliceTurns, HandoffTypeOK, FlagValues, ThreadPlaces
    <3>2. AliceBehind' /\ HandedLines'
      BY <1>6, <2>2 DEF AliceTurns, AliceBehind, HandedLines
    <3> QED BY <3>1, <3>2
  <2> QED BY <1>6, <2>1, <2>2 DEF AliceTurns
<1>7. CASE SpuriousWake
  <2>1. HandoffTypeOK' /\ FlagValues' /\ ThreadPlaces'
    BY <1>7 DEF SpuriousWake, HandoffTypeOK, FlagValues, ThreadPlaces
  <2>2. AliceBehind' /\ HandedLines'
    BY <1>7 DEF SpuriousWake, AliceBehind, HandedLines
  <2> QED BY <2>1, <2>2
<1>8. CASE Interrupt
  <2>1. HandoffTypeOK' /\ FlagValues' /\ ThreadPlaces'
    BY <1>8 DEF Interrupt, HandoffTypeOK, FlagValues, ThreadPlaces
  <2>2. AliceBehind' /\ HandedLines'
    BY <1>8 DEF Interrupt, AliceBehind, HandedLines
  <2> QED BY <2>1, <2>2
<1>9. CASE UNCHANGED handoffVars
  <2>1. HandoffTypeOK' /\ FlagValues' /\ ThreadPlaces'
    BY <1>9 DEF handoffVars, HandoffTypeOK, FlagValues, ThreadPlaces
  <2>2. AliceBehind' /\ HandedLines'
    BY <1>9 DEF handoffVars, AliceBehind, HandedLines
  <2> QED BY <2>1, <2>2
<1> QED
  BY <1>1, <1>2, <1>3, <1>4, <1>5, <1>6, <1>7, <1>8, <1>9
  DEF HandoffNext, ThreadStep, AliceLock, AliceWakes

(* The invariant holds in every behaviour of the two threads. *)
LEMMA HandoffInvariant == HandoffSpec => []HandoffInv
BY HandoffInitInv, HandoffNextInv, PTL DEF HandoffSpec

(* Only the thread that holds the mutex reads a line, a cipher is there    *)
(* exactly while Alice is to decrypt it, and the two flags that the        *)
(* threads wait for are never set together.                                *)
THEOREM FlagsExclude == HandoffSpec => []HandoffTypeOK
<1>1. HandoffInv => HandoffTypeOK
  BY DEF HandoffInv
<1> QED BY HandoffInvariant, <1>1, PTL

-----------------------------------------------------------------------------

(* Only BobEncrypts sends, and only when Alice has printed the line before. *)
LEMMA BobSends ==
  ASSUME HandoffInv, BobEncrypts PROVE Slot!Send
<1>1. Head(unread) \in TypedLines
  BY NextTypedLine DEF HandoffInv, HandedLines, BobEncrypts
<1>2. accepted = printed
  BY DEF HandoffInv, ThreadPlaces, AliceBehind, BobEncrypts
<1>3. accepted' = Append(accepted, Head(unread)) /\ printed' = printed
  BY DEF BobEncrypts
<1> QED
  BY <1>1, <1>2, <1>3 DEF Slot!Send, TypedLines

(* Only AliceDecrypts receives, and receives the line that was sent.       *)
LEMMA AliceReceives ==
  ASSUME HandoffInv, ready, AliceDecrypts, UNCHANGED accepted PROVE Slot!Receive
<1>1. PICK line \in TypedLines : enc_result = encrypt(line) /\ accepted = Append(printed, line)
  BY DEF HandoffInv, AliceBehind
<1>2. printed' = Append(printed, line)
  BY <1>1, CipherOpens DEF AliceDecrypts
<1>3. printed \in Seq(TypedLines)
  BY DEF HandoffInv, HandedLines
<1>4. Len(printed) < Len(accepted) /\ accepted[Len(printed) + 1] = line
  BY <1>1, <1>3
<1> QED
  BY <1>2, <1>4 DEF Slot!Receive

(* Every step is one of the channel's, or none of its business. *)
LEMMA HandoffStepRefines ==
  HandoffInv /\ [HandoffNext]_handoffVars => [Slot!Next]_<<accepted, printed>>
<1> SUFFICES ASSUME HandoffInv, [HandoffNext]_handoffVars
             PROVE  Slot!Next \/ UNCHANGED <<accepted, printed>>
  BY DEF Slot!Next
<1>1. CASE BobEncrypts
  BY <1>1, BobSends DEF Slot!Next
<1>2. ASSUME NEW from \in {"lock", "woken"}, AliceTurns(from)
      PROVE  Slot!Next \/ UNCHANGED <<accepted, printed>>
  BY <1>2, AliceReceives DEF AliceTurns, Slot!Next
<1>3. CASE BobLock \/ SkipEmptyLine \/ BobWakes \/ BobClears \/ SpuriousWake \/ Interrupt
  BY <1>3 DEF BobLock, SkipEmptyLine, BobWakes, BobClears, SpuriousWake, Interrupt
<1>4. CASE UNCHANGED handoffVars
  BY <1>4 DEF handoffVars
<1> QED
  BY <1>1, <1>2, <1>3, <1>4 DEF HandoffNext, ThreadStep, AliceLock, AliceWakes

(* The two threads are a channel of one place: a line is taken only when   *)
(* the one before has been printed, and is printed once and in order. The  *)
(* flags decide; the notifications may come early, late or for nothing.    *)
THEOREM ImplementsOneSlot == HandoffSpec => HandedOver
<1>1. HandoffInit => Slot!Init
  BY DEF HandoffInit, Slot!Init
<1> QED
  BY <1>1, HandoffInvariant, HandoffStepRefines, PTL DEF HandoffSpec, HandedOver, Slot!Spec

=============================================================================
