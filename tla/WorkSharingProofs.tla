-------------------------- MODULE WorkSharingProofs --------------------------
(***************************************************************************)
(* For any number of workers, users, letters and threads, whoever joins,   *)
(* leaves or crashes when, and however late anybody reads: the server      *)
(* never hears of a user it does not have; users are found in order, and   *)
(* nobody crashes who was told enough, until server or workers are led     *)
(* astray; and workers that know each other's number share the letters     *)
(* out.                                                                    *)
(***************************************************************************)
EXTENDS WorkSharing, FiniteSetTheorems, SequenceTheorems, WellFoundedInduction, TLAPS

Modes == {"off", "idle", "searching", "gone", "crashed"}
ServerFields == {"slots", "client_count", "user_no", "known", "at", "num_thread", "names"}
WorkerFields == {"mode", "fd", "socket_id", "num_thread", "client_count", "elements", "nodes",
                 "u", "index", "found", "has", "pending", "listeners"}

IsStream(s) == \E S : s \in Seq(S)

(* What a message of the kind "send" says. *)
Told(m, n) == m.arg[2] = n /\ m.arg[4] = UserCount

(* What holds of one worker me, the stream to it and that from it: it was  *)
(* told the number of threads that all have, n, or none; what it reports   *)
(* are numbers; and "exit" is its last word.                               *)
Sound(me, in, out, n) ==
  /\ DOMAIN me = WorkerFields /\ me.mode \in Modes
  /\ me.pending \in 0 .. n /\ me.index \in Nat /\ me.num_thread \in {0, n}
  /\ IsStream(in) /\ IsStream(out)
  /\ \A i \in 1 .. Len(in) : in[i].kind = "send" => Told(in[i], n)
  /\ \A i \in 1 .. Len(out) :
       /\ out[i].kind = "found" => out[i].arg \in Nat
       /\ out[i].kind = "exit" => i = Len(out) /\ me.mode = "gone"
  /\ me.mode = "off" => in = << >> /\ out = << >>

(* Who has joined is counted, whether in a slot or not. *)
Joined == {w \in Workers : worker[w].mode # "off"}

ServerSound ==
  /\ DOMAIN server = ServerFields
  /\ server.client_count = Cardinality(Joined)
  /\ server.at \in {"menu", "pause", "killed"} /\ server.num_thread \in ThreadCounts
  /\ server.user_no \in 0 .. UserCount - 1 /\ server.known \subseteq 0 .. UserCount - 1

SharingInv ==
  /\ ServerSound
  /\ DOMAIN worker = Workers /\ DOMAIN toWorker = Workers /\ DOMAIN toServer = Workers
  /\ \A w \in Workers : Sound(worker[w], toWorker[w], toServer[w], server.num_thread)

(* What a worker's buffer still holds was told like what is in the stream. *)
BufferInv ==
  /\ DOMAIN s_buffer = Workers
  /\ \A w \in Workers : \A c \in DOMAIN s_buffer[w] :
       s_buffer[w][c].kind = "send" => Told(s_buffer[w][c], server.num_thread)

-----------------------------------------------------------------------------
(* The order of the users.  k of them are known.  Each message in the      *)
(* stream of a worker is labelled with how many were when it was sent,     *)
(* itself included.  Between two starts at least one more has been found,  *)
(* and there is no start when all have; a worker is not ahead of any start *)
(* that it is still to read, nor of a "found" while it searches; and if it *)
(* is done with a user that is not known then because its own report is    *)
(* under way.                                                              *)
Reported(out, user) == \E i \in 1 .. Len(out) : out[i].kind = "found" /\ out[i].arg = user

Turn(me) == me.index + (IF me.mode = "searching" THEN 1 ELSE 0)

InTurn(k, me, in, at, l) ==
  /\ \A i \in 1 .. Len(in) : l[i] \in 0 .. k
  /\ \A i, j \in 1 .. Len(in) :
       i < j /\ in[i].kind = "start" /\ in[j].kind \in {"start", "found"} => l[i] < l[j]
  /\ \A i \in 1 .. Len(in) :
       in[i].kind = "start" => Turn(me) <= l[i] /\ l[i] < UserCount /\ (at = "pause" => l[i] < k)
  /\ \A i \in 1 .. Len(in) : me.mode = "searching" /\ in[i].kind = "found" => me.index < l[i]
  /\ at = "pause" => Turn(me) <= k

NotAhead(k, me, out) ==
  /\ me.mode = "searching" => /\ me.index <= k /\ me.index < UserCount
                              /\ me.found => me.index < k \/ Reported(out, me.index)
  /\ me.mode = "idle" => me.index <= k \/ (me.index = k + 1 /\ Reported(out, k))

Follows(k, me, in, out, at) ==
  /\ \A i \in 1 .. Len(out) : out[i].kind = "found" => out[i].arg <= k /\ out[i].arg < UserCount
  /\ me.mode \in {"idle", "searching"} =>
       /\ NotAhead(k, me, out)
       /\ \E l \in [1 .. Len(in) -> 0 .. k] : InTurn(k, me, in, at, l)

OrderAt(k) ==
  /\ server.known = 0 .. k - 1 /\ (server.at = "pause" => k < UserCount)
  /\ \A w \in Workers : Follows(k, worker[w], toWorker[w], toServer[w], server.at)

OrderInv == ~astray => \E k \in Nat : OrderAt(k)

-----------------------------------------------------------------------------
(* Streams. *)

LEMMA StreamLen ==
  ASSUME NEW s, IsStream(s)
  PROVE  Len(s) \in Nat /\ DOMAIN s = 1 .. Len(s) /\ (s # << >> => Len(s) > 0)
<1> PICK S : s \in Seq(S)
  BY DEF IsStream
<1> QED
  BY LenProperties, EmptySeq

LEMMA EmptyStream == IsStream(<< >>) /\ Len(<< >>) = 0
<1>1. << >> \in Seq({})
  OBVIOUS
<1> QED
  BY <1>1 DEF IsStream

LEMMA StreamAppend ==
  ASSUME NEW s, IsStream(s), NEW e
  PROVE  LET r == Append(s, e)
         IN /\ IsStream(r) /\ Len(s) \in Nat /\ Len(r) = Len(s) + 1
            /\ \A i \in 1 .. Len(s) : r[i] = s[i]
            /\ r[Len(s) + 1] = e
<1> PICK S : s \in Seq(S)
  BY DEF IsStream
<1>1. s \in Seq(S \cup {e})
  BY SeqMonotonic
<1>2. Append(s, e) \in Seq(S \cup {e})
  BY <1>1, AppendProperties
<1>3. /\ Len(s) \in Nat /\ Len(Append(s, e)) = Len(s) + 1
      /\ \A i \in 1 .. Len(s) : Append(s, e)[i] = s[i]
      /\ Append(s, e)[Len(s) + 1] = e
  BY <1>1, AppendProperties, LenProperties
<1> QED
  BY <1>2, <1>3 DEF IsStream

LEMMA StreamTail ==
  ASSUME NEW s, IsStream(s), s # << >>
  PROVE  /\ IsStream(Tail(s)) /\ Len(s) \in Nat /\ Len(Tail(s)) = Len(s) - 1 /\ Len(s) > 0
         /\ \A i \in 1 .. Len(Tail(s)) : Tail(s)[i] = s[i + 1]
         /\ Head(s) = s[1]
<1> PICK S : s \in Seq(S)
  BY DEF IsStream
<1>1. /\ Tail(s) \in Seq(S) /\ Len(Tail(s)) = Len(s) - 1
      /\ \A i \in 1 .. Len(Tail(s)) : Tail(s)[i] = s[i + 1]
  BY HeadTailProperties
<1>2. Len(s) \in Nat /\ Len(s) > 0
  BY LenProperties, EmptySeq
<1>3. Head(s) = s[1]
  OBVIOUS
<1> QED
  BY <1>1, <1>2, <1>3 DEF IsStream

(* A number of messages behind each other. *)
Lengthened(s, n, f, r) ==
  /\ IsStream(r) /\ Len(s) \in Nat /\ Len(r) = Len(s) + n
  /\ \A i \in 1 .. Len(s) : r[i] = s[i]
  /\ \A i \in Len(s) + 1 .. Len(s) + n : r[i] = f[i - Len(s)]

LEMMA StreamConcat ==
  ASSUME NEW s, IsStream(s), NEW n \in Nat, NEW U, NEW f \in [1 .. n -> U]
  PROVE  Lengthened(s, n, f, s \o f)
<1> PICK S : s \in Seq(S)
  BY DEF IsStream
<1> DEFINE T == S \cup U
<1>1. s \in Seq(T)
  BY SeqMonotonic
<1>2. f \in [1 .. n -> T]
  OBVIOUS
<1> HIDE DEF T
<1>3. f \in Seq(T) /\ Len(f) = n
  <2>1. f \in Seq(T)
    BY <1>2, SeqDef
  <2>2. DOMAIN f = 1 .. n /\ DOMAIN f = 1 .. Len(f) /\ Len(f) \in Nat
    BY <1>2, <2>1, LenProperties
  <2>3. Len(f) = n
    BY <2>2
  <2> QED
    BY <2>1, <2>3
<1> DEFINE r == s \o f
<1>4. /\ r \in Seq(T) /\ Len(r) = Len(s) + n /\ Len(s) \in Nat
      /\ \A i \in 1 .. Len(s) + n : r[i] = IF i <= Len(s) THEN s[i] ELSE f[i - Len(s)]
  BY <1>1, <1>3, ConcatProperties, LenProperties
<1> HIDE DEF r
<1>5. IsStream(r)
  BY <1>4 DEF IsStream
<1>6. ASSUME NEW i \in 1 .. Len(s)  PROVE r[i] = s[i]
  BY <1>4
<1>7. ASSUME NEW i \in Len(s) + 1 .. Len(s) + n  PROVE r[i] = f[i - Len(s)]
  BY <1>4
<1> QED
  BY <1>4, <1>5, <1>6, <1>7 DEF r, Lengthened

(* What is left of a stream of which d messages are gone and the next may  *)
(* be cut.                                                                 *)
Remains(s, r, d) ==
  /\ IsStream(r) /\ d \in 0 .. Len(s) /\ Len(r) = Len(s) - d
  /\ \A i \in 1 .. Len(r) : r[i] = s[i + d] \/ r[i].kind \in Cuts

(* What was seen is gone. *)
ReadTo(s, bytes, r, d) ==
  /\ Remains(s, r, d)
  /\ \A m \in Seen(s, bytes) :
       \E n \in 1 .. Len(s) :
         m = s[n] /\ \A i \in 1 .. Len(r) : r[i].kind \notin Cuts => n < i + d

LEMMA LeastNumber ==
  ASSUME NEW S \in SUBSET Nat, S # {}
  PROVE  Min(S) \in S
<1>1. PICK m \in S : \A n \in S : <<n, m>> \notin OpToRel(<, Nat)
  BY WFMin, NatLessThanWellFounded, Zenon
<1>2. \A n \in S : ~(n < m)
  BY <1>1, Zenon DEF OpToRel
<1>3. \A n \in S : m <= n
  BY <1>2
<1> QED
  BY <1>3 DEF Min

LEMMA ReadFromStream ==
  ASSUME NEW s, IsStream(s), NEW bytes \in Nat
  PROVE  \E d \in 0 .. Len(s) : ReadTo(s, bytes, Without(s, bytes), d)
<1>0. PICK S : s \in Seq(S)
  BY DEF IsStream
<1>1. Len(s) \in Nat
  BY StreamLen
<1> DEFINE n == FirstLeft(s, bytes)
           offset == Offset(s)
           left == SubSeq(s, n, Len(s))
           r == Without(s, bytes)
           d == n - 1
<1>2. n \in 1 .. Len(s) + 1 /\ (n = Len(s) + 1 \/ ~(offset[n] <= bytes))
  <2> DEFINE ends == {i \in 1 .. Len(s) + 1 : i = Len(s) + 1 \/ ~(Offset(s)[i] <= bytes)}
  <2>1. ends \in SUBSET Nat /\ Len(s) + 1 \in ends
    BY <1>1
  <2>2. Min(ends) \in ends
    BY <2>1, LeastNumber
  <2>3. n = Min(ends)
    BY DEF FirstLeft
  <2> QED
    BY <2>2, <2>3
<1> HIDE DEF n, offset
<1>3. /\ left \in Seq(S) /\ Len(left) = Len(s) - d
      /\ \A i \in 1 .. Len(left) : left[i] = s[i + d]
  <2>1. CASE n = Len(s) + 1
    BY <1>0, <1>1, <2>1, SubSeqProperties
  <2>2. CASE n <= Len(s)
    BY <1>0, <1>1, <1>2, <2>2, SubSeqProperties
  <2> QED
    BY <1>1, <1>2, <2>1, <2>2
<1> HIDE DEF left
<1> DEFINE cut == n <= Len(s) /\ offset[n - 1] # bytes
           rest == Rest(left[1], offset[n] - bytes)
<1>4. r = IF cut THEN [left EXCEPT ![1] = rest] ELSE left
  BY DEF Without, n, offset, left
<1>5. rest.kind \in Cuts
  BY DEF Rest, Cuts
<1> HIDE DEF r, rest
<1>6. /\ IsStream(r) /\ Len(r) = Len(left)
      /\ \A i \in 1 .. Len(left) : i # 1 => r[i] = left[i]
      /\ cut => r[1] = rest
      /\ ~cut => r = left
  <2>1. CASE cut
    <3>1. left \in Seq(S \cup {rest})
      BY <1>3, SeqMonotonic
    <3>2. 1 \in 1 .. Len(left)
      BY <1>1, <1>2, <1>3, <2>1
    <3>3. r = [left EXCEPT ![1] = rest]
      BY <1>4, <2>1
    <3>4. r \in Seq(S \cup {rest}) /\ Len(r) = Len(left)
      BY <3>1, <3>2, <3>3, ExceptSeq
    <3>5. DOMAIN left = 1 .. Len(left)
      BY <1>3
    <3> QED
      BY <2>1, <3>2, <3>3, <3>4, <3>5 DEF IsStream
  <2>2. CASE ~cut
    BY <1>3, <1>4, <2>2 DEF IsStream
  <2> QED
    BY <2>1, <2>2
<1>7. d \in 0 .. Len(s)
  BY <1>1, <1>2
<1>8. Remains(s, r, d)
  BY <1>3, <1>5, <1>6, <1>7 DEF Remains
<1>9. ASSUME NEW m \in Seen(s, bytes)
      PROVE  \E p \in 1 .. Len(s) :
               m = s[p] /\ \A i \in 1 .. Len(r) : r[i].kind \notin Cuts => p < i + d
  <2>1. PICK p \in 1 .. Len(s) :
          /\ m = s[p] /\ \A i \in 1 .. p - 1 : offset[i] <= bytes
          /\ offset[p - 1] + Word <= bytes
    BY DEF Seen, offset
  <2>2. p <= n
    BY <1>1, <1>2, <2>1
  <2>3. p = n => cut
    BY <1>1, <2>1 DEF Word
  <2>4. ASSUME NEW i \in 1 .. Len(r), r[i].kind \notin Cuts  PROVE p < i + d
    <3>1. i = 1 => ~cut
      BY <1>5, <1>6, <2>4
    <3>2. i = 1 => p < n
      BY <1>1, <1>2, <2>2, <2>3, <3>1
    <3> QED
      BY <1>1, <1>2, <1>3, <1>6, <2>2, <3>2
  <2> QED
    BY <2>1, <2>4
<1> QED
  BY <1>7, <1>8, <1>9 DEF r, ReadTo

-----------------------------------------------------------------------------
(* The types: one lemma for the server's steps, one for the workers'.      *)

LEMMA CountsAreNumbers == UserCount \in Nat \ {0}
BY WorkSharingAssumption

LEMMA CountIsNumber ==
  SharingInv => server.num_thread \in Nat \ {0} /\ UserCount \in Nat \ {0}
BY WorkSharingAssumption DEF SharingInv, ServerSound

(* Who has joined. *)
LEMMA JoinedFinite == IsFiniteSet(Joined) /\ Cardinality(Joined) \in 0 .. Cardinality(Workers)
<1>1. Joined \subseteq Workers
  BY DEF Joined
<1>2. IsFiniteSet(Joined) /\ Cardinality(Joined) <= Cardinality(Workers)
  BY <1>1, WorkSharingAssumption, FS_Subset
<1> QED
  BY <1>2, WorkSharingAssumption, FS_CardinalityType

LEMMA SharingInit == WorkInit => SharingInv
<1> SUFFICES ASSUME WorkInit PROVE SharingInv
  OBVIOUS
<1> USE WorkSharingAssumption
<1>1. PICK n \in ThreadCounts, names \in UNION {UserLists[m] : m \in ThreadCounts} :
        server = [slots |-> << >>, client_count |-> 0, user_no |-> 0, known |-> {},
                  at |-> "menu", num_thread |-> n, names |-> names]
  BY DEF WorkInit
<1>2. Joined = {}
  BY DEF WorkInit, Joined, NewWorker
<1>3. ServerSound
  BY <1>1, <1>2, FS_EmptySet DEF ServerSound, ServerFields
<1>4. ASSUME NEW w \in Workers  PROVE Sound(worker[w], toWorker[w], toServer[w], server.num_thread)
  <2>1. worker[w] = NewWorker /\ toWorker[w] = << >> /\ toServer[w] = << >>
    BY DEF WorkInit
  <2>2. n \in Nat /\ server.num_thread = n
    BY <1>1
  <2>3. DOMAIN NewWorker = WorkerFields
    BY DEF NewWorker, WorkerFields
  <2> QED
    BY <2>1, <2>2, <2>3, EmptyStream DEF Sound, NewWorker, Modes
<1> QED
  BY <1>3, <1>4 DEF SharingInv, WorkInit

(* A worker that has joined is as sound with more to read, or less. *)
LEMMA SoundIn ==
  ASSUME NEW me, NEW in, NEW out, NEW n, Sound(me, in, out, n), me.mode # "off",
         NEW r, IsStream(r), \A i \in 1 .. Len(r) : r[i].kind = "send" => Told(r[i], n)
  PROVE  Sound(me, r, out, n)
BY DEF Sound

LEMMA SoundTold ==
  ASSUME NEW me, NEW in, NEW out, NEW n, Sound(me, in, out, n), me.mode # "off",
         NEW m, m.kind = "send" => Told(m, n)
  PROVE  Sound(me, Append(in, m), out, n)
<1>1. IsStream(in) /\ \A i \in 1 .. Len(in) : in[i].kind = "send" => Told(in[i], n)
  BY DEF Sound
<1> DEFINE r == Append(in, m)
<1>2. /\ IsStream(r) /\ Len(in) \in Nat /\ Len(r) = Len(in) + 1
      /\ \A i \in 1 .. Len(in) : r[i] = in[i]
      /\ r[Len(in) + 1] = m
  BY <1>1, StreamAppend
<1> HIDE DEF r
<1>3. ASSUME NEW i \in 1 .. Len(r), r[i].kind = "send"  PROVE Told(r[i], n)
  <2>1. CASE i \in 1 .. Len(in)
    BY <1>1, <1>2, <1>3, <2>1
  <2>2. CASE i = Len(in) + 1
    BY <1>2, <1>3, <2>2
  <2> QED
    BY <1>2, <2>1, <2>2
<1>4. Sound(me, r, out, n)
  BY <1>2, <1>3, SoundIn
<1> QED
  BY <1>4 DEF r

LEMMA SoundToldMany ==
  ASSUME NEW me, NEW in, NEW out, NEW n, Sound(me, in, out, n), me.mode # "off",
         NEW c \in Nat, NEW U, NEW f \in [1 .. c -> U], \A m \in U : m.kind # "send"
  PROVE  Sound(me, in \o f, out, n)
<1>1. IsStream(in) /\ \A i \in 1 .. Len(in) : in[i].kind = "send" => Told(in[i], n)
  BY DEF Sound
<1> DEFINE r == in \o f
<1>2. Lengthened(in, c, f, r)
  BY <1>1, StreamConcat
<1> HIDE DEF r
<1>3. /\ IsStream(r) /\ Len(in) \in Nat /\ Len(r) = Len(in) + c
      /\ \A i \in 1 .. Len(in) : r[i] = in[i]
      /\ \A i \in Len(in) + 1 .. Len(in) + c : r[i] = f[i - Len(in)]
  BY <1>2 DEF Lengthened
<1>4. ASSUME NEW i \in 1 .. Len(r), r[i].kind = "send"  PROVE Told(r[i], n)
  <2>1. CASE i \in 1 .. Len(in)
    BY <1>1, <1>3, <1>4, <2>1
  <2>2. CASE i \in Len(in) + 1 .. Len(in) + c
    <3>1. r[i] = f[i - Len(in)] /\ i - Len(in) \in 1 .. c
      BY <1>3, <2>2
    <3> QED
      BY <1>4, <3>1
  <2> QED
    BY <1>3, <2>1, <2>2
<1>5. Sound(me, r, out, n)
  BY <1>3, <1>4, SoundIn
<1> QED
  BY <1>5 DEF r

LEMMA SoundRead ==
  ASSUME NEW me, NEW in, NEW out, NEW n, Sound(me, in, out, n), me.mode # "off",
         NEW r, NEW d, Remains(in, r, d)
  PROVE  Sound(me, r, out, n)
<1>1. IsStream(in) /\ \A i \in 1 .. Len(in) : in[i].kind = "send" => Told(in[i], n)
  BY DEF Sound
<1>2. Len(in) \in Nat
  BY <1>1, StreamLen
<1>3. ASSUME NEW i \in 1 .. Len(r), r[i].kind = "send"  PROVE Told(r[i], n)
  <2>1. d \in 0 .. Len(in) /\ Len(r) = Len(in) - d /\ (r[i] = in[i + d] \/ r[i].kind \in Cuts)
    BY DEF Remains
  <2>2. i + d \in 1 .. Len(in) /\ r[i] = in[i + d]
    BY <1>2, <1>3, <2>1 DEF Cuts
  <2> QED
    BY <1>1, <1>3, <2>2
<1> QED
  BY <1>3, SoundIn DEF Remains

(* A step of the server in which nobody joins or leaves. *)
LEMMA SharingServerStep ==
  ASSUME SharingInv, UNCHANGED worker,
         DOMAIN server' = ServerFields, server'.num_thread = server.num_thread,
         server'.client_count = server.client_count, server'.at \in {"menu", "pause", "killed"},
         server'.user_no \in 0 .. UserCount - 1, server'.known \subseteq 0 .. UserCount - 1,
         DOMAIN toWorker' = Workers, DOMAIN toServer' = Workers,
         \A w \in Workers : Sound(worker[w], toWorker'[w], toServer'[w], server.num_thread)
  PROVE  SharingInv'
<1>1. Joined' = Joined
  BY DEF Joined
<1>2. ServerSound'
  BY <1>1 DEF SharingInv, ServerSound
<1> QED
  BY <1>2 DEF SharingInv

(* A step of one worker that has joined. *)
Alone(w) ==
  /\ UNCHANGED server
  /\ DOMAIN worker' = Workers /\ DOMAIN toWorker' = Workers /\ DOMAIN toServer' = Workers
  /\ \A v \in Workers \ {w} : UNCHANGED <<worker[v], toWorker[v], toServer[v]>>

(* What the main loop reads, with what is left from earlier. *)
ReadBy(w) == Seen(toWorker[w], 256) \cup Stale(s_buffer[w], toWorker[w])

LEMMA ObeyedIsThere ==
  ASSUME NEW kinds, NEW command, command # "none", Obeyed(kinds) = command
  PROVE  command \in kinds
<1> DEFINE found == {n \in 1 .. Len(Commands) : Commands[n] \in kinds}
<1>1. found # {} /\ command = Commands[Min(found)]
  BY DEF Obeyed
<1>2. found \in SUBSET Nat
  <2>1. Len(Commands) = 6
    BY DEF Commands
  <2> QED
    BY <2>1
<1>3. Min(found) \in found
  BY <1>1, <1>2, LeastNumber
<1> QED
  BY <1>1, <1>3

(* What the main loop makes of a message, the conditions left aside that   *)
(* are not needed.                                                         *)
Outcome(w) ==
  \/ UNCHANGED worker
  \/ \E info :
       /\ "send" \in Kinds(ReadBy(w))
       /\ info = (CHOOSE m \in ReadBy(w) : m.kind = "send").arg
       /\ worker' = [worker EXCEPT ![w].socket_id = info[1], ![w].num_thread = info[2],
                                   ![w].client_count = info[3], ![w].elements = info[4]]
  \/ worker' = [worker EXCEPT ![w].u = @ + 1]
  \/ worker' = [worker EXCEPT ![w].mode = "crashed"]
  \/ \E user : worker' = [worker EXCEPT ![w].u = @ + 1, ![w].elements = @ + 1,
                                        ![w].nodes = InsertAt(@, worker[w].u + 1, user)]
  \/ worker' = [worker EXCEPT ![w].elements = 0, ![w].num_thread = 0, ![w].nodes = Tail(@),
                              ![w].index = 0, ![w].u = 0]
  \/ /\ Obeyed(Kinds(ReadBy(w))) = "start"
     /\ worker' = [worker EXCEPT ![w].mode = "searching", ![w].found = FALSE,
                                 ![w].has = FALSE, ![w].listeners = @ + 1]

LEMMA ReadOutcome ==
  ASSUME NEW w \in Workers, WorkerRead(w)
  PROVE  /\ worker[w].mode = "idle" /\ toWorker' = [toWorker EXCEPT ![w] = Without(@, 256)]
         /\ UNCHANGED <<server, toServer>>
         /\ Outcome(w)
<1>1. /\ worker[w].mode = "idle" /\ toWorker' = [toWorker EXCEPT ![w] = Without(@, 256)]
      /\ UNCHANGED <<server, toServer>>
  BY Zenon DEF WorkerRead
<1>2. Obeyed(Kinds(ReadBy(w))) = "send" => "send" \in Kinds(ReadBy(w))
  BY ObeyedIsThere
<1>3. Outcome(w)
  BY <1>2, Zenon DEF WorkerRead, Outcome, ReadBy, Join
<1> QED
  BY <1>1, <1>3

(* As long as nobody is led astray a worker obeys what it was sent, and    *)
(* waits for no thread that it has not got.                                *)
LEMMA NotMisled ==
  ASSUME NEW w \in Workers, WorkerRead(w), ~astray'
  PROVE  \/ UNCHANGED worker
         \/ Obeyed(Kinds(ReadBy(w))) = Obeyed(Kinds(Seen(toWorker[w], 256)))
BY Zenon DEF WorkerRead, Join, ReadBy

LEMMA AstrayStays ==
  ASSUME WorkNext, ~astray'
  PROVE  /\ ~astray /\ ~FlushUserInfo
         /\ \A kind \in {"text", "bare", "start", "flush", "found", "display"} :
              Relay(kind) => kind \in {"text", "display"}
<1>1. ASSUME NEW w \in Workers, WorkerRead(w)  PROVE ~astray
  BY <1>1, Zenon DEF WorkerRead, Join
<1>2. ASSUME NEW w \in Workers, WorkerStep(w)  PROVE ~astray
  BY <1>1, <1>2 DEF WorkerStep, Listen, Discover, SeeAnswer, Report, EndSearch, TypeExit
<1>3. ASSUME NEW w \in Workers, Accept(w) \/ HandleExit(w)  PROVE ~astray
  BY <1>3 DEF Accept, HandleExit
<1>4. ASSUME NEW w \in Workers, HandleFound(w)  PROVE ~astray
  BY <1>4, Zenon DEF HandleFound
<1>5. SendSocketInfo \/ SendUserInfo \/ StartSearch \/ StartNext => ~astray
  BY DEF SendSocketInfo, SendUserInfo, StartSearch, StartNext
<1>6. ~FlushUserInfo
  BY DEF FlushUserInfo
<1>7. \A kind \in {"text", "bare", "start", "flush", "found", "display"} :
        Relay(kind) => ~astray /\ kind \in {"text", "display"}
  BY DEF Relay
<1> QED
  BY <1>2, <1>3, <1>4, <1>5, <1>6, <1>7 DEF WorkNext

(* What is obeyed as "send" says what the server says.                     *)
LEMMA ReadTold ==
  ASSUME SharingInv, BufferInv, NEW w \in Workers, "send" \in Kinds(ReadBy(w))
  PROVE  Told(CHOOSE m \in ReadBy(w) : m.kind = "send", server.num_thread)
<1> DEFINE in == toWorker[w]
           n == server.num_thread
           seen == ReadBy(w)
<1>1. \E m \in seen : m.kind = "send"
  BY DEF Kinds
<1>2. PICK m : m = (CHOOSE x \in seen : x.kind = "send") /\ m \in seen /\ m.kind = "send"
  BY <1>1
<1>3. CASE m \in Seen(in, 256)
  <2>1. PICK i \in 1 .. Len(in) : m = in[i]
    BY <1>3 DEF Seen
  <2> QED
    BY <1>2, <2>1 DEF SharingInv, Sound
<1>4. CASE m \in Stale(s_buffer[w], in)
  <2>1. PICK c \in DOMAIN s_buffer[w] : m = s_buffer[w][c]
    BY <1>4 DEF Stale
  <2> QED
    BY <1>2, <2>1 DEF BufferInv
<1> QED
  BY <1>2, <1>3, <1>4 DEF ReadBy

LEMMA OthersUntouched ==
  ASSUME SharingInv, NEW w \in Workers, WorkerStep(w)
  PROVE  Alone(w) /\ worker[w].mode \in {"idle", "searching"}
<1>1. DOMAIN worker = Workers /\ DOMAIN toWorker = Workers /\ DOMAIN toServer = Workers
  BY DEF SharingInv
<1>2. CASE WorkerRead(w)
  <2>1. DOMAIN worker' = Workers /\ \A v \in Workers \ {w} : worker'[v] = worker[v]
    <3> DEFINE Others == DOMAIN worker' = Workers /\ \A v \in Workers \ {w} : worker'[v] = worker[v]
    <3> SUFFICES Others
      OBVIOUS
    <3>1. CASE UNCHANGED worker
      BY <1>1, <3>1
    <3>2. CASE \E info : worker' = [worker EXCEPT ![w].socket_id = info[1], ![w].num_thread = info[2],
                                                 ![w].client_count = info[3], ![w].elements = info[4]]
      BY <1>1, <3>2
    <3>3. CASE worker' = [worker EXCEPT ![w].u = @ + 1] \/ worker' = [worker EXCEPT ![w].mode = "crashed"]
      BY <1>1, <3>3
    <3>4. CASE \E user : worker' = [worker EXCEPT ![w].u = @ + 1, ![w].elements = @ + 1,
                                                 ![w].nodes = InsertAt(@, worker[w].u + 1, user)]
      BY <1>1, <3>4
    <3>5. CASE worker' = [worker EXCEPT ![w].elements = 0, ![w].num_thread = 0, ![w].nodes = Tail(@),
                                        ![w].index = 0, ![w].u = 0]
      BY <1>1, <3>5
    <3>6. CASE worker' = [worker EXCEPT ![w].mode = "searching", ![w].found = FALSE,
                                        ![w].has = FALSE, ![w].listeners = @ + 1]
      BY <1>1, <3>6
    <3> HIDE DEF Others
    <3>7. Outcome(w)
      BY <1>2, ReadOutcome, Zenon
    <3> QED
      BY <3>1, <3>2, <3>3, <3>4, <3>5, <3>6, <3>7 DEF Outcome
  <2>2. worker[w].mode = "idle" /\ UNCHANGED <<server, toServer>>
        /\ toWorker' = [toWorker EXCEPT ![w] = Without(@, 256)]
    BY <1>2, ReadOutcome, Zenon
  <2> QED
    BY <1>1, <2>1, <2>2 DEF Alone
<1>3. CASE Listen(w)
  BY <1>1, <1>3 DEF Listen, Alone
<1>4. CASE Discover(w) \/ SeeAnswer(w) \/ EndSearch(w)
  BY <1>1, <1>4 DEF Discover, SeeAnswer, EndSearch, Alone
<1>5. CASE Report(w) \/ TypeExit(w)
  BY <1>1, <1>5 DEF Report, TypeExit, Alone
<1> QED
  BY <1>2, <1>3, <1>4, <1>5 DEF WorkerStep

LEMMA SharingWorkerStep ==
  ASSUME SharingInv, NEW w \in Workers, Alone(w), worker[w].mode # "off", worker'[w].mode # "off",
         Sound(worker'[w], toWorker'[w], toServer'[w], server.num_thread)
  PROVE  SharingInv'
<1>1. Joined' = Joined
  BY DEF Joined, Alone
<1>2. ServerSound' /\ server'.num_thread = server.num_thread
  BY <1>1 DEF SharingInv, ServerSound, Alone
<1>3. \A v \in Workers : Sound(worker'[v], toWorker'[v], toServer'[v], server.num_thread)
  BY DEF SharingInv, Alone
<1> QED
  BY <1>2, <1>3 DEF SharingInv, Alone

LEMMA SharingAccept ==
  ASSUME SharingInv, NEW w \in Workers, Accept(w)
  PROVE  SharingInv'
<1>1. ServerSound /\ DOMAIN worker = Workers /\ DOMAIN toWorker = Workers /\ DOMAIN toServer = Workers
  BY DEF SharingInv
<1>2. PICK slots :
        /\ server' = [server EXCEPT !.client_count = server.client_count + 1, !.slots = slots]
        /\ worker[w].mode = "off"
        /\ worker' = [worker EXCEPT ![w] = [NewWorker EXCEPT !.mode = "idle", !.fd = LowestFd]]
        /\ toWorker' = toWorker /\ toServer' = toServer
  BY DEF Accept
<1> DEFINE me == [NewWorker EXCEPT !.mode = "idle", !.fd = LowestFd]
<1>3. /\ DOMAIN me = WorkerFields /\ me.mode = "idle" /\ me.pending = 0 /\ me.index = 0
      /\ me.num_thread = 0
  BY DEF NewWorker, WorkerFields
<1> HIDE DEF me
<1>4. worker'[w] = me /\ \A v \in Workers : v # w => worker'[v] = worker[v]
  BY <1>1, <1>2 DEF me
<1>5. Joined' = Joined \cup {w} /\ w \notin Joined
  BY <1>2, <1>3, <1>4 DEF Joined
<1>6. Cardinality(Joined') = Cardinality(Joined) + 1
  BY <1>5, JoinedFinite, FS_AddElement
<1>7. ServerSound'
  BY <1>1, <1>2, <1>6 DEF ServerSound, ServerFields
<1>8. server'.num_thread = server.num_thread /\ server.num_thread \in Nat
  BY <1>1, <1>2, CountIsNumber DEF ServerSound, ServerFields
<1>9. ASSUME NEW v \in Workers
      PROVE  Sound(worker'[v], toWorker'[v], toServer'[v], server'.num_thread)
  <2>1. Sound(worker[v], toWorker[v], toServer[v], server.num_thread)
    BY DEF SharingInv
  <2>2. CASE v = w
    <3>1. toWorker[v] = << >> /\ toServer[v] = << >>
      BY <1>2, <2>1, <2>2 DEF Sound
    <3>2. \A n \in Nat : Sound(me, << >>, << >>, n)
      BY <1>3, EmptyStream DEF Sound, Modes
    <3>3. worker'[v] = me /\ toWorker'[v] = << >> /\ toServer'[v] = << >>
      BY <1>2, <1>4, <2>2, <3>1
    <3> QED
      BY <1>8, <3>2, <3>3
  <2>3. CASE v # w
    BY <1>2, <1>4, <1>8, <2>1, <2>3
  <2> QED
    BY <2>2, <2>3
<1> QED
  BY <1>1, <1>2, <1>7, <1>9 DEF SharingInv

(* What the server writes to whom, and what it makes of it. *)
LEMMA AfterWritingIs ==
  ASSUME NEW at, NEW new \in AfterWriting(at)
  PROVE  new \in {at, "killed"}
BY DEF AfterWriting

LEMMA SharingTold ==
  ASSUME SharingInv, NEW w \in Workers, Reached(w),
         NEW m, m.kind = "send" => Told(m, server.num_thread)
  PROVE  Sound(worker[w], Append(toWorker[w], m), toServer[w], server.num_thread)
BY SoundTold DEF SharingInv, Reached, InUse

LEMMA SharingMenu ==
  ASSUME SharingInv, SendSocketInfo \/ SendUserInfo \/ StartSearch \/ FlushUserInfo \/ StartNext
           \/ \E kind : kind # "send" /\ Relay(kind)
  PROVE  SharingInv'
<1>1. ServerSound /\ DOMAIN worker = Workers /\ DOMAIN toWorker = Workers /\ DOMAIN toServer = Workers
  BY DEF SharingInv
<1>2. \A w \in Workers : Sound(worker[w], toWorker[w], toServer[w], server.num_thread)
  BY DEF SharingInv
<1>3. DOMAIN server = ServerFields /\ server.client_count = Cardinality(Joined)
      /\ server.user_no \in 0 .. UserCount - 1 /\ server.known \subseteq 0 .. UserCount - 1
  BY <1>1 DEF ServerSound
<1>4. \A m : m.kind # "send" =>
        \A w \in Workers :
          Sound(worker[w], IF Reached(w) THEN Append(toWorker[w], m) ELSE toWorker[w],
                toServer[w], server.num_thread)
  BY <1>2, SharingTold
<1>5. \A kind : kind # "send" =>
        \A w \in Workers : /\ Sound(worker[w], Sent(Short(kind))[w], toServer[w], server.num_thread)
                           /\ Sound(worker[w], Sent(Frame(kind))[w], toServer[w], server.num_thread)
  BY <1>4 DEF Sent, Short, Frame
<1>6. \A m : DOMAIN Sent(m) = Workers
  BY DEF Sent
<1>7. CASE SendSocketInfo
  <2>1. ASSUME NEW w \in Workers  PROVE Sound(worker[w], toWorker'[w], toServer[w], server.num_thread)
    <3>1. CASE Reached(w)
      <4> DEFINE m == [Frame("send") EXCEPT
                         !.arg = <<worker[w].fd, server.num_thread, server.client_count, UserCount>>]
      <4>1. toWorker'[w] = Append(toWorker[w], m)
        BY <1>7, <3>1 DEF SendSocketInfo
      <4>2. Told(m, server.num_thread)
        BY DEF Frame, Told
      <4> QED
        BY <3>1, <4>1, <4>2, SharingTold
    <3>2. CASE ~Reached(w)
      BY <1>2, <1>7, <3>2 DEF SendSocketInfo
    <3> QED
      BY <3>1, <3>2
  <2>2. PICK at \in AfterWriting("menu") : server' = [server EXCEPT !.at = at]
    BY <1>7 DEF SendSocketInfo
  <2>3. at \in {"menu", "killed"}
    BY AfterWritingIs
  <2>4. DOMAIN toWorker' = Workers /\ UNCHANGED <<worker, toServer>>
    BY <1>7 DEF SendSocketInfo
  <2> QED
    BY <1>1, <1>3, <2>1, <2>2, <2>3, <2>4, SharingServerStep DEF ServerFields
<1>8. CASE SendUserInfo
  <2>1. ASSUME NEW w \in Workers  PROVE Sound(worker[w], toWorker'[w], toServer[w], server.num_thread)
    <3>1. CASE Reached(w)
      <4> DEFINE f == [u \in 1 .. UserCount |-> [Frame("user") EXCEPT !.arg = u - 1]]
                 U == {m \in {f[u] : u \in 1 .. UserCount} : m.kind = "user"}
                 in == toWorker[w]
                 r  == in \o f
      <4>1. toWorker'[w] = r
        BY <1>8, <3>1 DEF SendUserInfo
      <4>2. f \in [1 .. UserCount -> U] /\ \A m \in U : m.kind = "user"
        BY DEF Frame
      <4>3. UserCount \in Nat /\ worker[w].mode # "off"
        BY <3>1, CountIsNumber DEF Reached
      <4>4. Sound(worker[w], in, toServer[w], server.num_thread)
        BY <1>2
      <4> HIDE DEF in, f, U
      <4>5. Sound(worker[w], r, toServer[w], server.num_thread)
        BY <4>2, <4>3, <4>4, SoundToldMany
      <4> QED
        BY <4>1, <4>5
    <3>2. CASE ~Reached(w)
      BY <1>2, <1>8, <3>2 DEF SendUserInfo
    <3> QED
      BY <3>1, <3>2
  <2>2. PICK at \in AfterWriting("menu") : server' = [server EXCEPT !.at = at]
    BY <1>8 DEF SendUserInfo
  <2>3. at \in {"menu", "killed"}
    BY AfterWritingIs
  <2>4. DOMAIN toWorker' = Workers /\ UNCHANGED <<worker, toServer>>
    BY <1>8 DEF SendUserInfo
  <2> QED
    BY <1>1, <1>3, <2>1, <2>2, <2>3, <2>4, SharingServerStep DEF ServerFields
<1>9. CASE StartSearch
  <2>1. CASE UNCHANGED <<server, toWorker>>
    BY <1>1, <1>2, <1>3, <1>9, <2>1, SharingServerStep DEF StartSearch, ServerSound
  <2>2. CASE ~UNCHANGED <<server, toWorker>>
    <3>1. PICK at \in AfterWriting("menu") : server' = [server EXCEPT !.at = at]
      BY <1>9, <2>2 DEF StartSearch
    <3>2. at \in {"menu", "killed"}
      BY AfterWritingIs
    <3>3. toWorker' = Sent(Short("start")) /\ UNCHANGED <<worker, toServer>>
      BY <1>9, <2>2 DEF StartSearch
    <3> QED
      BY <1>1, <1>3, <1>5, <1>6, <3>1, <3>2, <3>3, SharingServerStep DEF ServerFields
  <2> QED
    BY <2>1, <2>2
<1>10. CASE FlushUserInfo
  <2>1. PICK at \in AfterWriting("menu") : server' = [server EXCEPT !.known = {}, !.at = at]
    BY <1>10 DEF FlushUserInfo
  <2>2. at \in {"menu", "killed"}
    BY AfterWritingIs
  <2>3. toWorker' = Sent(Short("flush")) /\ UNCHANGED <<worker, toServer>>
    BY <1>10 DEF FlushUserInfo
  <2> QED
    BY <1>1, <1>3, <1>5, <1>6, <2>1, <2>2, <2>3, SharingServerStep DEF ServerFields
<1>11. CASE StartNext
  <2>1. PICK at \in AfterWriting("menu") : server' = [server EXCEPT !.at = at]
    BY <1>11 DEF StartNext
  <2>2. at \in {"menu", "killed"}
    BY AfterWritingIs
  <2>3. toWorker' = Sent(Frame("start")) /\ UNCHANGED <<worker, toServer>>
    BY <1>11 DEF StartNext
  <2> QED
    BY <1>1, <1>3, <1>5, <1>6, <2>1, <2>2, <2>3, SharingServerStep DEF ServerFields
<1>12. CASE \E kind : kind # "send" /\ Relay(kind)
  <2>0. PICK kind : kind # "send" /\ Relay(kind)
    BY <1>12
  <2>1. PICK at \in AfterWriting("menu") : server' = [server EXCEPT !.at = at]
    BY <2>0 DEF Relay
  <2>2. at \in {"menu", "killed"}
    BY AfterWritingIs
  <2>3. toWorker' = Sent(Frame(kind)) /\ UNCHANGED <<worker, toServer>>
    BY <2>0 DEF Relay
  <2> QED
    BY <1>1, <1>3, <1>5, <1>6, <2>0, <2>1, <2>2, <2>3, SharingServerStep DEF ServerFields
<1> QED
  BY <1>7, <1>8, <1>9, <1>10, <1>11, <1>12

(* A report is taken off the stream, and everybody else is told. *)
LEMMA SharingHandleFound ==
  ASSUME SharingInv, NEW w \in Workers, HandleFound(w)
  PROVE  SharingInv'
<1>1. ServerSound /\ DOMAIN worker = Workers /\ DOMAIN toWorker = Workers /\ DOMAIN toServer = Workers
  BY DEF SharingInv
<1>2. \A v \in Workers : Sound(worker[v], toWorker[v], toServer[v], server.num_thread)
  BY DEF SharingInv
<1> DEFINE out == toServer[w]
           user_no == Head(out).arg
           next == user_no + 1
<1>3. /\ out # << >> /\ Head(out).kind = "found" /\ UNCHANGED worker
      /\ toServer' = [toServer EXCEPT ![w] = Tail(out)] /\ toWorker' = Sent(Frame("found"))
  BY DEF HandleFound
<1>4. IsStream(out)
  BY <1>2 DEF Sound
<1>5. /\ IsStream(Tail(out)) /\ Len(out) \in Nat /\ Len(Tail(out)) = Len(out) - 1 /\ Len(out) > 0
      /\ \A i \in 1 .. Len(Tail(out)) : Tail(out)[i] = out[i + 1]
      /\ Head(out) = out[1]
  BY <1>3, <1>4, StreamTail
<1>6. user_no \in Nat
  <2>1. 1 \in 1 .. Len(out) /\ out[1].kind = "found"
    BY <1>3, <1>5
  <2> QED
    BY <1>2, <1>5, <2>1 DEF Sound
<1>7. ASSUME NEW v \in Workers  PROVE Sound(worker[v], toWorker'[v], toServer'[v], server.num_thread)
  <2>1. Sound(worker[v], toWorker'[v], toServer[v], server.num_thread)
    <3>1. CASE Reached(v)
      <4>1. toWorker'[v] = Append(toWorker[v], Frame("found"))
        BY <1>3, <3>1 DEF Sent
      <4> QED
        BY <3>1, <4>1, SharingTold DEF Frame
    <3>2. CASE ~Reached(v)
      BY <1>2, <1>3, <3>2 DEF Sent
    <3> QED
      BY <3>1, <3>2
  <2>2. CASE v = w
    <3>1. toServer'[v] = Tail(out)
      BY <1>1, <1>3, <2>2
    <3>2. worker[v].mode # "off"
      BY <1>2, <1>3, <2>2 DEF Sound
    <3>3. ASSUME NEW i \in 1 .. Len(Tail(out))
          PROVE  /\ Tail(out)[i].kind = "found" => Tail(out)[i].arg \in Nat
                 /\ Tail(out)[i].kind = "exit" => i = Len(Tail(out)) /\ worker[v].mode = "gone"
      <4>1. i + 1 \in 1 .. Len(out) /\ Tail(out)[i] = out[i + 1]
        BY <1>5
      <4>2. /\ out[i + 1].kind = "found" => out[i + 1].arg \in Nat
            /\ out[i + 1].kind = "exit" => i + 1 = Len(out) /\ worker[v].mode = "gone"
        BY <1>2, <2>2, <4>1 DEF Sound
      <4> QED
        BY <1>5, <4>1, <4>2
    <3> QED
      BY <1>5, <2>1, <3>1, <3>2, <3>3 DEF Sound
  <2>3. CASE v # w
    BY <1>1, <1>3, <2>1, <2>3
  <2> QED
    BY <2>2, <2>3
<1>8. DOMAIN toWorker' = Workers /\ DOMAIN toServer' = Workers
  BY <1>1, <1>3 DEF Sent
<1>9. DOMAIN server = ServerFields /\ server.user_no \in 0 .. UserCount - 1
      /\ server.known \subseteq 0 .. UserCount - 1
  BY <1>1 DEF ServerSound
<1> HIDE DEF user_no
<1>10. CASE user_no >= UserCount
  <2>1. server' = [server EXCEPT !.at = "killed"]
    BY <1>10 DEF HandleFound, user_no
  <2> QED
    BY <1>3, <1>7, <1>8, <1>9, <2>1, SharingServerStep DEF ServerFields
<1>11. CASE user_no < UserCount
  <2>0. UserCount \in Nat \ {0}
    BY CountIsNumber
  <2>1. PICK at \in AfterWriting(IF next = UserCount THEN "menu" ELSE "pause") :
          server' = [server EXCEPT !.known = @ \cup {user_no},
                                   !.user_no = IF next = UserCount THEN 0 ELSE next,
                                   !.at = at]
    <3>1. ~(user_no >= UserCount)
      BY <1>6, <1>11, <2>0
    <3> QED
      BY <3>1 DEF HandleFound, user_no
  <2>2. at \in {"menu", "pause", "killed"}
    BY AfterWritingIs
  <2>3. server'.user_no \in 0 .. UserCount - 1 /\ server'.known \subseteq 0 .. UserCount - 1
    <3>1. server'.user_no = IF next = UserCount THEN 0 ELSE next
      BY <1>9, <2>1 DEF ServerFields
    <3>2. server'.known = server.known \cup {user_no}
      BY <1>9, <2>1 DEF ServerFields
    <3> QED
      BY <1>6, <1>9, <1>11, <2>0, <3>1, <3>2
  <2>4. /\ DOMAIN server' = ServerFields /\ server'.num_thread = server.num_thread
        /\ server'.client_count = server.client_count /\ server'.at = at
    BY <1>9, <2>1 DEF ServerFields
  <2> QED
    BY <1>3, <1>7, <1>8, <2>2, <2>3, <2>4, SharingServerStep
<1> QED
  BY <1>6, <1>10, <1>11, CountIsNumber

LEMMA SharingHandleExit ==
  ASSUME SharingInv, NEW w \in Workers, HandleExit(w)
  PROVE  SharingInv'
<1>1. ServerSound /\ DOMAIN worker = Workers /\ DOMAIN toWorker = Workers /\ DOMAIN toServer = Workers
  BY DEF SharingInv
<1>2. \A v \in Workers : Sound(worker[v], toWorker[v], toServer[v], server.num_thread)
  BY DEF SharingInv
<1> DEFINE out == toServer[w]
           slot == {i \in Slots : server.slots[i] = worker[w].fd}
           me == [NewWorker EXCEPT !.mode = "off"]
<1>3. /\ out # << >> /\ Head(out).kind = "exit"
      /\ toServer' = [toServer EXCEPT ![w] = Tail(out)]
      /\ toWorker' = [toWorker EXCEPT ![w] = << >>]
  BY DEF HandleExit
<1>4. IsStream(out) /\ worker[w].mode # "off"
  BY <1>2, <1>3 DEF Sound
<1>5. Tail(out) = << >> /\ worker[w].mode = "gone"
  <2>1. /\ IsStream(Tail(out)) /\ Len(out) \in Nat /\ Len(Tail(out)) = Len(out) - 1
        /\ Len(out) > 0 /\ Head(out) = out[1]
    BY <1>3, <1>4, StreamTail
  <2>2. 1 \in 1 .. Len(out) /\ out[1].kind = "exit"
    BY <1>3, <2>1
  <2>3. 1 = Len(out) /\ worker[w].mode = "gone"
    BY <1>2, <2>2 DEF Sound
  <2> QED
    <3> DEFINE r == Tail(out)
    <3>1. IsStream(r) /\ Len(r) = 0
      BY <2>1, <2>3
    <3> HIDE DEF r
    <3>2. r = << >>
      BY <3>1, StreamLen
    <3> QED
      BY <2>3, <3>2 DEF r
<1>6. server'.num_thread = server.num_thread /\ server.num_thread \in Nat
  BY <1>1, CountIsNumber DEF HandleExit, ServerSound, ServerFields
<1>7. worker' = worker \/ worker' = [worker EXCEPT ![w] = me]
  BY DEF HandleExit
<1>8. /\ DOMAIN me = WorkerFields /\ me.mode = "off" /\ me.pending = 0 /\ me.index = 0
      /\ me.num_thread = 0
  BY DEF NewWorker, WorkerFields
<1> HIDE DEF me
<1>9. ASSUME NEW v \in Workers
      PROVE  Sound(worker'[v], toWorker'[v], toServer'[v], server'.num_thread)
  <2>1. CASE v = w
    <3>1. toWorker'[v] = << >> /\ toServer'[v] = << >>
      BY <1>1, <1>3, <1>5, <2>1
    <3>2. \A n \in Nat : Sound(me, << >>, << >>, n)
      BY <1>8, EmptyStream DEF Sound, Modes
    <3>3. Sound(worker[w], << >>, << >>, server.num_thread)
      <4>1. Sound(worker[w], toWorker[w], toServer[w], server.num_thread)
        BY <1>2
      <4> QED
        BY <1>4, <4>1, EmptyStream DEF Sound
    <3>4. worker'[v] = me \/ worker'[v] = worker[w]
      BY <1>1, <1>7, <2>1
    <3> QED
      BY <1>6, <3>1, <3>2, <3>3, <3>4
  <2>2. CASE v # w
    <3>1. worker'[v] = worker[v] /\ toWorker'[v] = toWorker[v] /\ toServer'[v] = toServer[v]
      BY <1>1, <1>3, <1>7, <2>2
    <3> QED
      BY <1>2, <1>6, <3>1
  <2> QED
    BY <2>1, <2>2
<1>10. ServerSound'
  <2>1. CASE slot = {}
    <3>1. UNCHANGED <<server, worker>>
      BY <2>1 DEF HandleExit
    <3>2. Joined' = Joined
      BY <3>1 DEF Joined
    <3> QED
      BY <1>1, <3>1, <3>2 DEF ServerSound
  <2>2. CASE slot # {}
    <3>1. /\ server' = [server EXCEPT !.slots[Min(slot)] = 0, !.client_count = @ - 1]
          /\ worker' = [worker EXCEPT ![w] = me]
      BY <2>2 DEF HandleExit, me
    <3>2. Joined' = Joined \ {w} /\ w \in Joined
      BY <1>1, <1>4, <1>8, <3>1 DEF Joined
    <3>3. Cardinality(Joined') = Cardinality(Joined) - 1
      BY <3>2, JoinedFinite, FS_RemoveElement
    <3>4. /\ DOMAIN server' = ServerFields /\ server'.num_thread = server.num_thread
          /\ server'.client_count = server.client_count - 1 /\ server'.at = server.at
          /\ server'.user_no = server.user_no /\ server'.known = server.known
      BY <1>1, <3>1 DEF ServerSound, ServerFields
    <3> QED
      BY <1>1, <3>3, <3>4 DEF ServerSound
  <2> QED
    BY <2>1, <2>2
<1>11. DOMAIN worker' = Workers /\ DOMAIN toWorker' = Workers /\ DOMAIN toServer' = Workers
  BY <1>1, <1>3, <1>7
<1> QED
  BY <1>9, <1>10, <1>11 DEF SharingInv

(* A worker's own steps. *)
LEMMA SharingRead ==
  ASSUME SharingInv, BufferInv, NEW w \in Workers, WorkerRead(w)
  PROVE  SharingInv'
<1> DEFINE in == toWorker[w]
           out == toServer[w]
           n == server.num_thread
           me == worker[w]
           new == worker'[w]
           seen == ReadBy(w)
           r == Without(in, 256)
<1>1. DOMAIN worker = Workers /\ Sound(me, in, out, n) /\ n \in Nat
  BY CountIsNumber DEF SharingInv
<1>2. /\ me.mode = "idle" /\ toWorker' = [toWorker EXCEPT ![w] = Without(in, 256)]
      /\ UNCHANGED <<server, toServer>>
  BY ReadOutcome
<1>3. PICK d \in 0 .. Len(in) : Remains(in, r, d)
  BY <1>1, ReadFromStream DEF Sound, ReadTo
<1>4. Sound(me, r, out, n)
  BY <1>1, <1>2, <1>3, SoundRead
<1>5. "send" \in Kinds(seen) => Told(CHOOSE m \in seen : m.kind = "send", n)
  BY ReadTold
<1>6. /\ DOMAIN new = WorkerFields /\ new.mode \in {"idle", "searching", "crashed"}
      /\ new.pending = me.pending /\ new.index \in {0, me.index}
      /\ new.num_thread \in {0, n, me.num_thread}
  <2>1. DOMAIN me = WorkerFields
    BY <1>1 DEF Sound
  <2> USE <1>1, <1>2, <2>1 DEF WorkerFields
  <2>2. CASE UNCHANGED worker
    BY <2>2
  <2>3. CASE \E info :
               /\ "send" \in Kinds(seen)
               /\ info = (CHOOSE m \in seen : m.kind = "send").arg
               /\ worker' = [worker EXCEPT ![w].socket_id = info[1], ![w].num_thread = info[2],
                                           ![w].client_count = info[3], ![w].elements = info[4]]
    <3>1. PICK info :
            /\ info[2] = n
            /\ worker' = [worker EXCEPT ![w].socket_id = info[1], ![w].num_thread = info[2],
                                        ![w].client_count = info[3], ![w].elements = info[4]]
      BY <1>5, <2>3 DEF Told
    <3> QED
      BY <3>1
  <2>4. CASE worker' = [worker EXCEPT ![w].u = @ + 1]
    BY <2>4
  <2>5. CASE worker' = [worker EXCEPT ![w].mode = "crashed"]
    BY <2>5
  <2>6. CASE \E user : worker' = [worker EXCEPT ![w].u = @ + 1, ![w].elements = @ + 1,
                                                ![w].nodes = InsertAt(@, me.u + 1, user)]
    BY <2>6
  <2>7. CASE worker' = [worker EXCEPT ![w].elements = 0, ![w].num_thread = 0, ![w].nodes = Tail(@),
                                      ![w].index = 0, ![w].u = 0]
    BY <2>7
  <2>8. CASE worker' = [worker EXCEPT ![w].mode = "searching", ![w].found = FALSE,
                                      ![w].has = FALSE, ![w].listeners = @ + 1]
    BY <2>8
  <2> QED
    BY <2>2, <2>3, <2>4, <2>5, <2>6, <2>7, <2>8, ReadOutcome DEF Outcome
<1> HIDE DEF new
<1>7. Sound(new, r, out, n)
  <2> HIDE DEF in, out, n, me, r
  <2>1. /\ IsStream(r) /\ IsStream(out) /\ me.pending \in 0 .. n /\ me.index \in Nat
        /\ me.num_thread \in {0, n}
        /\ \A i \in 1 .. Len(r) : r[i].kind = "send" => Told(r[i], n)
        /\ \A i \in 1 .. Len(out) : /\ out[i].kind = "found" => out[i].arg \in Nat
                                    /\ out[i].kind # "exit"
    BY <1>1, <1>2, <1>4 DEF Sound
  <2>2. new.mode \in Modes /\ new.mode # "off" /\ new.index \in Nat /\ new.num_thread \in {0, n}
    BY <1>1, <1>6, <2>1 DEF Modes
  <2> QED
    BY <1>6, <2>1, <2>2 DEF Sound
<1>8. toServer'[w] = out /\ toWorker'[w] = r
  BY <1>2 DEF SharingInv
<1>9. Alone(w)
  BY OthersUntouched DEF WorkerStep
<1> QED
  BY <1>2, <1>6, <1>7, <1>8, <1>9, SharingWorkerStep DEF new

LEMMA SharingWorker ==
  ASSUME SharingInv, BufferInv, NEW w \in Workers, WorkerStep(w)
  PROVE  SharingInv'
<1> DEFINE in == toWorker[w]
           out == toServer[w]
           n == server.num_thread
           me == worker[w]
<1>1. /\ DOMAIN worker = Workers /\ DOMAIN toWorker = Workers /\ DOMAIN toServer = Workers
      /\ Sound(me, in, out, n) /\ n \in Nat
  BY CountIsNumber DEF SharingInv
<1>2. DOMAIN me = WorkerFields /\ me.pending \in 0 .. n /\ me.index \in Nat /\ me.num_thread \in {0, n}
  BY <1>1 DEF Sound
<1>3. Alone(w) /\ me.mode # "off"
  BY OthersUntouched
(* Steps that send nothing and read nothing. *)
<1>4. ASSUME NEW new, DOMAIN new = WorkerFields, new.mode \in {"idle", "searching"},
             new.pending \in 0 .. n, new.index \in Nat, new.num_thread = me.num_thread,
             me.mode \in {"idle", "searching"}
      PROVE  Sound(new, in, out, n)
  BY <1>1, <1>4 DEF Sound, Modes
<1>5. CASE Discover(w)
  <2> DEFINE new == [me EXCEPT !.has = TRUE]
  <2>1. worker'[w] = new /\ me.mode = "searching"
        /\ toWorker'[w] = in /\ toServer'[w] = out
    BY <1>1, <1>5 DEF Discover
  <2>2. /\ DOMAIN new = WorkerFields /\ new.mode = me.mode /\ new.pending = me.pending
        /\ new.index = me.index /\ new.num_thread = me.num_thread
    BY <1>2 DEF WorkerFields
  <2> HIDE DEF new
  <2>3. Sound(new, in, out, n)
    BY <1>2, <1>4, <2>1, <2>2
  <2> QED
    BY <1>3, <2>1, <2>2, <2>3, SharingWorkerStep
<1>6. CASE SeeAnswer(w)
  <2> DEFINE new == [me EXCEPT !.pending = @ + 1]
  <2>1. worker'[w] = new /\ me.mode = "searching" /\ me.pending < me.num_thread
        /\ toWorker'[w] = in /\ toServer'[w] = out
    BY <1>1, <1>6 DEF SeeAnswer
  <2>2. /\ DOMAIN new = WorkerFields /\ new.mode = me.mode /\ new.pending = me.pending + 1
        /\ new.index = me.index /\ new.num_thread = me.num_thread
    BY <1>2 DEF WorkerFields
  <2> HIDE DEF new
  <2>3. new.pending \in 0 .. n
    BY <1>1, <1>2, <2>1, <2>2
  <2>4. Sound(new, in, out, n)
    BY <1>2, <1>4, <2>1, <2>2, <2>3
  <2> QED
    BY <1>3, <2>1, <2>2, <2>4, SharingWorkerStep
<1>7. CASE EndSearch(w)
  <2> DEFINE new == [me EXCEPT !.mode = "idle", !.index = @ + 1]
  <2>1. worker'[w] = new /\ me.mode = "searching"
        /\ toWorker'[w] = in /\ toServer'[w] = out
    BY <1>1, <1>7 DEF EndSearch
  <2>2. /\ DOMAIN new = WorkerFields /\ new.mode = "idle" /\ new.pending = me.pending
        /\ new.index = me.index + 1 /\ new.num_thread = me.num_thread
    BY <1>2 DEF WorkerFields
  <2> HIDE DEF new
  <2>3. Sound(new, in, out, n)
    BY <1>2, <1>4, <2>1, <2>2
  <2> QED
    BY <1>3, <2>1, <2>2, <2>3, SharingWorkerStep
<1>8. CASE Listen(w)
  <2> DEFINE new == worker'[w]
  <2>1. PICK d \in 0 .. Len(in) : Remains(in, Without(in, 40), d)
    BY <1>1, ReadFromStream DEF Sound, ReadTo
  <2>2. /\ new = me \/ new = [me EXCEPT !.found = TRUE, !.listeners = @ - 1]
        /\ me.mode \in {"idle", "searching"} /\ toWorker'[w] = Without(in, 40) /\ toServer'[w] = out
    BY <1>1, <1>8 DEF Listen
  <2>3. /\ DOMAIN new = WorkerFields /\ new.mode = me.mode /\ new.pending = me.pending
        /\ new.index = me.index /\ new.num_thread = me.num_thread
    BY <1>2, <2>2 DEF WorkerFields
  <2> HIDE DEF new
  <2>4. Sound(new, in, out, n)
    BY <1>2, <1>4, <2>2, <2>3
  <2>5. Sound(new, Without(in, 40), out, n)
    BY <2>1, <2>2, <2>3, <2>4, SoundRead
  <2> QED
    BY <1>3, <2>2, <2>3, <2>5, SharingWorkerStep DEF new
<1>9. CASE Report(w) \/ TypeExit(w)
  <2>1. PICK m, new :
          /\ worker'[w] = new /\ toServer'[w] = Append(out, m) /\ toWorker'[w] = in
          /\ DOMAIN new = WorkerFields /\ new.pending \in 0 .. n /\ new.index = me.index
          /\ new.num_thread = me.num_thread /\ me.mode \in {"idle", "searching"}
          /\ \/ m.kind = "found" /\ m.arg = me.index /\ new.mode = "searching"
             \/ m.kind = "exit" /\ new.mode = "gone"
    <3>1. CASE Report(w)
      <4> DEFINE m == [Frame("found") EXCEPT !.arg = me.index]
                 new == [me EXCEPT !.pending = @ - 1, !.found = TRUE]
      <4>1. /\ worker'[w] = new /\ toServer'[w] = Append(out, m) /\ toWorker'[w] = in
            /\ me.mode = "searching" /\ me.pending > 0
        BY <1>1, <3>1 DEF Report
      <4>2. m.kind = "found" /\ m.arg = me.index
        BY DEF Frame
      <4>3. /\ DOMAIN new = WorkerFields /\ new.pending \in 0 .. n /\ new.index = me.index
            /\ new.num_thread = me.num_thread /\ new.mode = me.mode
        BY <1>1, <1>2, <4>1 DEF WorkerFields
      <4> HIDE DEF m, new
      <4> QED
        BY <4>1, <4>2, <4>3
    <3>2. CASE TypeExit(w)
      <4> DEFINE m == Frame("exit")
                 new == [me EXCEPT !.mode = "gone"]
      <4>1. /\ worker'[w] = new /\ toServer'[w] = Append(out, m) /\ toWorker'[w] = in
            /\ me.mode = "idle"
        BY <1>1, <3>2 DEF TypeExit
      <4>2. m.kind = "exit"
        BY DEF Frame
      <4>3. /\ DOMAIN new = WorkerFields /\ new.pending \in 0 .. n /\ new.index = me.index
            /\ new.num_thread = me.num_thread /\ new.mode = "gone"
        BY <1>1, <1>2 DEF WorkerFields
      <4> HIDE DEF m, new
      <4> QED
        BY <4>1, <4>2, <4>3
    <3> QED
      BY <1>9, <3>1, <3>2
  <2> DEFINE r == Append(out, m)
  <2>2. /\ IsStream(r) /\ Len(out) \in Nat /\ Len(r) = Len(out) + 1
        /\ \A i \in 1 .. Len(out) : r[i] = out[i]
        /\ r[Len(out) + 1] = m
    BY <1>1, StreamAppend DEF Sound
  <2> HIDE DEF r
  <2>3. ASSUME NEW i \in 1 .. Len(r)
        PROVE  /\ r[i].kind = "found" => r[i].arg \in Nat
               /\ r[i].kind = "exit" => i = Len(r) /\ new.mode = "gone"
    <3>1. CASE i \in 1 .. Len(out)
      <4>1. r[i] = out[i]
        BY <2>2, <3>1
      <4>2. /\ out[i].kind = "found" => out[i].arg \in Nat
            /\ out[i].kind # "exit"
        BY <1>1, <2>1, <3>1 DEF Sound
      <4> QED
        BY <4>1, <4>2
    <3>2. CASE i = Len(out) + 1
      <4>1. r[i] = m /\ i = Len(r)
        BY <2>2, <3>2
      <4> QED
        BY <1>2, <2>1, <4>1
    <3> QED
      BY <2>2, <3>1, <3>2
  <2>4. IsStream(in) /\ \A i \in 1 .. Len(in) : in[i].kind = "send" => Told(in[i], n)
    BY <1>1 DEF Sound
  <2>5. Sound(new, in, r, n)
    BY <1>2, <2>1, <2>2, <2>3, <2>4 DEF Sound, Modes
  <2> QED
    BY <1>3, <2>1, <2>5, SharingWorkerStep DEF r
<1> QED
  BY <1>5, <1>6, <1>7, <1>8, <1>9, SharingRead DEF WorkerStep

LEMMA SharingNext == SharingInv /\ BufferInv /\ [WorkNext]_workVars => SharingInv'
<1> SUFFICES ASSUME SharingInv, BufferInv, [WorkNext]_workVars  PROVE SharingInv'
  OBVIOUS
<1>1. CASE UNCHANGED workVars
  BY <1>1 DEF workVars, SharingInv, ServerSound, Joined
<1> QED
  BY <1>1, SharingAccept, SharingHandleFound, SharingHandleExit, SharingMenu, SharingWorker
  DEF WorkNext

LEMMA BufferInit == WorkInit => BufferInv
<1> SUFFICES ASSUME WorkInit  PROVE BufferInv
  OBVIOUS
<1>1. DOMAIN << >> = {}
  OBVIOUS
<1> QED
  BY <1>1 DEF WorkInit, BufferInv

LEMMA BufferRead ==
  ASSUME SharingInv, BufferInv, NEW w \in Workers, WorkerRead(w)
  PROVE  BufferInv'
<1> DEFINE in == toWorker[w]
           n == server.num_thread
           buffer == s_buffer[w]
           text == Overwritten(buffer, in)
           Fine(b) == \A c \in DOMAIN b : b[c].kind = "send" => Told(b[c], n)
<1>1. /\ \A i \in 1 .. Len(in) : in[i].kind = "send" => Told(in[i], n)
      /\ Len(in) \in Nat
  BY StreamLen DEF SharingInv, Sound
<1>2. Fine(buffer) /\ DOMAIN s_buffer = Workers /\ \A v \in Workers : Fine(s_buffer[v])
  BY DEF BufferInv
<1>3. Fine(text)
  <2> DEFINE offset == Offset(in)
             begun == {i \in 1 .. Len(in) :
                         offset[i - 1] < 256 /\ offset[i - 1] % Word = 0 /\ in[i].kind \notin Cuts}
             begins(c) == {i \in begun : offset[i - 1] = Word * c}
  <2>1. ASSUME NEW c \in DOMAIN text, text[c].kind = "send"  PROVE Told(text[c], n)
    <3>1. \/ text[c] = in[Min(begins(c))] /\ begins(c) # {}
          \/ \E kind \in {"flush", "bare"} : text[c] = Frame(kind)
          \/ c \in DOMAIN buffer /\ text[c] = buffer[c]
      <4>1. CASE begins(c) # {}
        BY <2>1, <4>1 DEF Overwritten
      <4>2. CASE begins(c) = {} /\ c \in DOMAIN buffer
        BY <2>1, <4>2 DEF Overwritten
      <4>3. CASE begins(c) = {} /\ c \notin DOMAIN buffer
        BY <2>1, <4>3 DEF Overwritten
      <4> QED
        BY <4>1, <4>2, <4>3
    <3>2. begins(c) # {} => Min(begins(c)) \in 1 .. Len(in)
      <4>1. begins(c) \in SUBSET Nat
        BY <1>1
      <4>2. begins(c) # {} => Min(begins(c)) \in begins(c)
        BY <4>1, LeastNumber
      <4> QED
        BY <4>2
    <3>3. \A kind \in {"flush", "bare"} : Frame(kind).kind # "send"
      BY DEF Frame
    <3> HIDE DEF begins, text, in, buffer, n
    <3> QED
      BY <1>1, <1>2, <2>1, <3>1, <3>2, <3>3
  <2> QED
    BY <2>1
<1>4. \A kind : Fine(Bare(text, kind))
  <2> HIDE DEF text, n
  <2>1. Frame("bare").kind = "bare"
    BY DEF Frame
  <2> QED
    BY <1>3, <2>1 DEF Bare
<1>5. Fine(<< >>)
  <2>1. DOMAIN << >> = {}
    OBVIOUS
  <2> QED
    BY <2>1
<1>6. \E b : s_buffer' = [s_buffer EXCEPT ![w] = b] /\ Fine(b)
  <2>1. \E b : /\ s_buffer' = [s_buffer EXCEPT ![w] = b]
               /\ b \in {<< >>, text, Bare(text, "send"), Bare(text, "user")}
    BY DEF WorkerRead
  <2> HIDE DEF Fine, text
  <2> QED
    BY <1>3, <1>4, <1>5, <2>1
<1>7. UNCHANGED server
  BY ReadOutcome
<1> QED
  BY <1>2, <1>6, <1>7 DEF BufferInv

LEMMA BufferNext == SharingInv /\ BufferInv /\ [WorkNext]_workVars => BufferInv'
<1> SUFFICES ASSUME SharingInv, BufferInv, [WorkNext]_workVars  PROVE BufferInv'
  OBVIOUS
<1>1. DOMAIN server = ServerFields
  BY DEF SharingInv, ServerSound
<1>2. CASE UNCHANGED s_buffer /\ server'.num_thread = server.num_thread
  BY <1>2 DEF BufferInv
<1>3. ASSUME NEW w \in Workers, Accept(w)  PROVE BufferInv'
  <2>1. s_buffer' = [s_buffer EXCEPT ![w] = << >>] /\ server'.num_thread = server.num_thread
    BY <1>1, <1>3 DEF Accept, ServerFields
  <2>2. DOMAIN << >> = {}
    OBVIOUS
  <2> QED
    BY <2>1, <2>2 DEF BufferInv
<1>4. ASSUME NEW w \in Workers, WorkerStep(w), ~WorkerRead(w)  PROVE UNCHANGED <<s_buffer, server>>
  BY <1>4 DEF WorkerStep, Listen, Discover, SeeAnswer, Report, EndSearch, TypeExit
<1>5. ASSUME NEW w \in Workers, HandleFound(w) \/ HandleExit(w)
      PROVE  UNCHANGED s_buffer /\ server'.num_thread = server.num_thread
  <2>1. CASE HandleFound(w)
    BY <1>1, <2>1, Zenon DEF HandleFound, ServerFields
  <2>2. CASE HandleExit(w)
    BY <1>1, <2>2 DEF HandleExit, ServerFields
  <2> QED
    BY <1>5, <2>1, <2>2
<1>6. ASSUME \/ SendSocketInfo \/ SendUserInfo \/ StartSearch \/ FlushUserInfo \/ StartNext
             \/ \E kind : Relay(kind)
      PROVE  UNCHANGED s_buffer /\ server'.num_thread = server.num_thread
  BY <1>1, <1>6 DEF SendSocketInfo, SendUserInfo, StartSearch, FlushUserInfo, StartNext, Relay, ServerFields
<1> QED
  BY <1>2, <1>3, <1>4, <1>5, <1>6, BufferRead DEF WorkNext, workVars

(* The server never hears of a user that it does not have, counts exactly  *)
(* those who have joined, and of a worker never more threads report than   *)
(* it has.                                                                 *)
THEOREM WorkTypes == WorkSpec => []WorkTypeOK
<1>1. SharingInv => WorkTypeOK
  <2> SUFFICES ASSUME SharingInv  PROVE WorkTypeOK
    OBVIOUS
  <2>1. \A w \in Workers : worker[w].mode \in Modes /\ worker[w].pending \in 0 .. server.num_thread
    BY DEF SharingInv, Sound
  <2> QED
    BY <2>1, JoinedFinite DEF SharingInv, ServerSound, WorkTypeOK, Modes
<1> QED
  BY <1>1, SharingInit, SharingNext, BufferInit, BufferNext, PTL DEF WorkSpec

-----------------------------------------------------------------------------
(* The order of the users: what a message more, or less, does to the       *)
(* labels of one stream.                                                   *)

LEMMA FollowsLonger ==
  ASSUME NEW k \in Nat, NEW me, NEW in, NEW out, NEW at, Follows(k, me, in, out, at),
         NEW n \in Nat, NEW f, NEW r, Len(in) \in Nat, Lengthened(in, n, f, r),
         \A i \in 1 .. n : f[i].kind \notin {"start", "found"}
  PROVE  Follows(k, me, r, out, at)
<1> SUFFICES ASSUME me.mode \in {"idle", "searching"}
             PROVE  \E l \in [1 .. Len(r) -> 0 .. k] : InTurn(k, me, r, at, l)
  BY DEF Follows
<1>1. PICK l \in [1 .. Len(in) -> 0 .. k] : InTurn(k, me, in, at, l)
  BY DEF Follows
<1> DEFINE m == [i \in 1 .. Len(r) |-> IF i <= Len(in) THEN l[i] ELSE k]
<1>2. m \in [1 .. Len(r) -> 0 .. k]
  BY <1>1 DEF Lengthened
<1>3. ASSUME NEW i \in 1 .. Len(r), r[i].kind \in {"start", "found"}
      PROVE  i \in 1 .. Len(in) /\ r[i] = in[i] /\ m[i] = l[i]
  <2>1. CASE i \in 1 .. Len(in)
    BY <2>1 DEF Lengthened
  <2>2. CASE i \in Len(in) + 1 .. Len(in) + n
    <3>1. i - Len(in) \in 1 .. n /\ r[i] = f[i - Len(in)]
      BY <2>2 DEF Lengthened
    <3> QED
      BY <1>3, <3>1
  <2> QED
    BY <2>1, <2>2 DEF Lengthened
<1>4. \A i \in 1 .. Len(r) : m[i] \in 0 .. k
  BY <1>2
<1> HIDE DEF m
<1>5. InTurn(k, me, r, at, m)
  <2>1. ASSUME NEW i \in 1 .. Len(r), NEW j \in 1 .. Len(r),
               i < j, r[i].kind = "start", r[j].kind \in {"start", "found"}
        PROVE  m[i] < m[j]
    <3>1. i \in 1 .. Len(in) /\ j \in 1 .. Len(in) /\ l[i] < l[j] /\ m[i] = l[i] /\ m[j] = l[j]
      BY <1>1, <1>3, <2>1 DEF InTurn
    <3> QED
      BY <3>1
  <2>2. ASSUME NEW i \in 1 .. Len(r), r[i].kind = "start"
        PROVE  Turn(me) <= m[i] /\ m[i] < UserCount /\ (at = "pause" => m[i] < k)
    BY <1>1, <1>3, <2>2 DEF InTurn
  <2>3. ASSUME NEW i \in 1 .. Len(r), me.mode = "searching", r[i].kind = "found"
        PROVE  me.index < m[i]
    BY <1>1, <1>3, <2>3 DEF InTurn
  <2>4. at = "pause" => Turn(me) <= k
    BY <1>1 DEF InTurn
  <2> QED
    BY <1>4, <2>1, <2>2, <2>3, <2>4 DEF InTurn
<1> QED
  BY <1>2, <1>5

LEMMA FollowsAppend ==
  ASSUME NEW k \in Nat, NEW me, NEW in, NEW out, NEW at, Follows(k, me, in, out, at),
         IsStream(in), NEW m, m.kind \notin {"start", "found"}
  PROVE  Follows(k, me, Append(in, m), out, at)
<1> DEFINE r == Append(in, m)
           f == [i \in 1 .. 1 |-> m]
<1>1. Len(in) \in Nat /\ Lengthened(in, 1, f, r)
  <2>1. /\ IsStream(r) /\ Len(in) \in Nat /\ Len(r) = Len(in) + 1
        /\ \A i \in 1 .. Len(in) : r[i] = in[i]
        /\ r[Len(in) + 1] = m
    BY StreamAppend
  <2> HIDE DEF r
  <2> QED
    BY <2>1 DEF Lengthened
<1>2. \A i \in 1 .. 1 : f[i].kind \notin {"start", "found"}
  OBVIOUS
<1> HIDE DEF r, f
<1>3. Follows(k, me, r, out, at)
  BY <1>1, <1>2, FollowsLonger
<1> QED
  BY <1>3 DEF r

(* What is left of a stream after a read. *)
LaterLabels(l, d, n) == [i \in 1 .. n |-> l[i + d]]

LEMMA InTurnRemains ==
  ASSUME NEW k \in Nat, NEW me, NEW in, NEW at, NEW l \in [1 .. Len(in) -> 0 .. k],
         InTurn(k, me, in, at, l), Len(in) \in Nat, NEW r, NEW d, Remains(in, r, d)
  PROVE  /\ LaterLabels(l, d, Len(r)) \in [1 .. Len(r) -> 0 .. k]
         /\ InTurn(k, me, r, at, LaterLabels(l, d, Len(r)))
<1> DEFINE m == LaterLabels(l, d, Len(r))
<1>1. d \in 0 .. Len(in) /\ Len(r) = Len(in) - d
      /\ \A i \in 1 .. Len(r) : r[i] = in[i + d] \/ r[i].kind \in Cuts
  BY DEF Remains
<1>2. \A i \in 1 .. Len(r) : i + d \in 1 .. Len(in) /\ m[i] = l[i + d]
  BY <1>1 DEF LaterLabels
<1>3. m \in [1 .. Len(r) -> 0 .. k]
  BY <1>2 DEF LaterLabels
<1> HIDE DEF m
<1>4. InTurn(k, me, r, at, m)
  <2>0. \A i \in 1 .. Len(r) : m[i] \in 0 .. k
    BY <1>3
  <2>1. ASSUME NEW i \in 1 .. Len(r), NEW j \in 1 .. Len(r),
               i < j, r[i].kind = "start", r[j].kind \in {"start", "found"}
        PROVE  m[i] < m[j]
    <3>0. i + d < j + d
      BY <1>1, <2>1
    <3>1. /\ i + d \in 1 .. Len(in) /\ j + d \in 1 .. Len(in) /\ i + d < j + d
          /\ r[i] = in[i + d] /\ r[j] = in[j + d] /\ m[i] = l[i + d] /\ m[j] = l[j + d]
      <4>1. \A h \in 1 .. Len(r) : r[h].kind \notin Cuts => r[h] = in[h + d]
        BY <1>1
      <4>2. r[i].kind \notin Cuts /\ r[j].kind \notin Cuts
        BY <2>1 DEF Cuts
      <4> QED
        BY <1>2, <3>0, <4>1, <4>2
    <3>2. l[i + d] < l[j + d]
      BY <2>1, <3>1 DEF InTurn
    <3> QED
      BY <3>1, <3>2
  <2>2. ASSUME NEW i \in 1 .. Len(r), r[i].kind = "start"
        PROVE  Turn(me) <= m[i] /\ m[i] < UserCount /\ (at = "pause" => m[i] < k)
    <3>1. i + d \in 1 .. Len(in) /\ r[i] = in[i + d] /\ m[i] = l[i + d]
      BY <1>1, <1>2, <2>2 DEF Cuts
    <3> QED
      BY <2>2, <3>1 DEF InTurn
  <2>3. ASSUME NEW i \in 1 .. Len(r), me.mode = "searching", r[i].kind = "found"
        PROVE  me.index < m[i]
    <3>1. i + d \in 1 .. Len(in) /\ r[i] = in[i + d] /\ m[i] = l[i + d]
      BY <1>1, <1>2, <2>3 DEF Cuts
    <3> QED
      BY <2>3, <3>1 DEF InTurn
  <2>4. at = "pause" => Turn(me) <= k
    BY DEF InTurn
  <2> QED
    BY <2>0, <2>1, <2>2, <2>3, <2>4 DEF InTurn
<1> QED
  BY <1>3, <1>4 DEF m

(* A worker that goes on where it is, having read a part of the stream. *)
LEMMA FollowsRead ==
  ASSUME NEW k \in Nat, NEW me, NEW in, NEW out, NEW at, Follows(k, me, in, out, at),
         Len(in) \in Nat, NEW r, NEW d, Remains(in, r, d),
         NEW new, new.mode = me.mode, new.index = me.index, new.found = me.found
  PROVE  Follows(k, new, r, out, at)
<1>1. NotAhead(k, me, out) => NotAhead(k, new, out)
  BY DEF NotAhead
<1>2. Turn(new) = Turn(me)
  BY DEF Turn
<1>3. ASSUME me.mode \in {"idle", "searching"}
      PROVE  \E l \in [1 .. Len(r) -> 0 .. k] : InTurn(k, new, r, at, l)
  <2>1. PICK l \in [1 .. Len(in) -> 0 .. k] : InTurn(k, me, in, at, l)
    BY <1>3 DEF Follows
  <2>2. PICK m \in [1 .. Len(r) -> 0 .. k] : InTurn(k, me, r, at, m)
    BY <2>1, InTurnRemains
  <2>3. InTurn(k, new, r, at, m)
    BY <1>2, <2>2 DEF InTurn
  <2> QED
    BY <2>3
<1> QED
  BY <1>1, <1>3 DEF Follows

(* A start that is obeyed: the search is for a user that is not known, or  *)
(* for the one whose "found" is behind the start in the stream.            *)
LEMMA FollowsStart ==
  ASSUME NEW k \in Nat, NEW me, NEW in, NEW out, NEW at, Follows(k, me, in, out, at),
         me.mode = "idle", me.index \in Nat, Len(in) \in Nat, NEW r, NEW d, Remains(in, r, d),
         NEW p \in 1 .. Len(in), in[p].kind = "start",
         \A i \in 1 .. Len(r) : r[i].kind \notin Cuts => p < i + d,
         NEW new, new.mode = "searching", new.index = me.index, new.found = FALSE
  PROVE  Follows(k, new, r, out, at)
<1>1. PICK l \in [1 .. Len(in) -> 0 .. k] : InTurn(k, me, in, at, l)
  BY DEF Follows
<1> DEFINE m == LaterLabels(l, d, Len(r))
<1>2. m \in [1 .. Len(r) -> 0 .. k] /\ InTurn(k, me, r, at, m)
  BY <1>1, InTurnRemains
<1>3. ASSUME NEW i \in 1 .. Len(r), r[i].kind \notin Cuts
      PROVE  i + d \in 1 .. Len(in) /\ r[i] = in[i + d] /\ m[i] = l[i + d] /\ p < i + d
  BY <1>3 DEF Remains, LaterLabels
<1> HIDE DEF m
<1>4. me.index <= l[p] /\ l[p] \in 0 .. k /\ l[p] < UserCount /\ (at = "pause" => l[p] < k)
  BY <1>1 DEF InTurn, Turn
<1>5. ASSUME NEW i \in 1 .. Len(r), r[i].kind \in {"start", "found"}
      PROVE  me.index + 1 <= m[i]
  <2>1. l[p] < l[i + d]
    BY <1>1, <1>3, <1>5 DEF InTurn, Cuts
  <2>2. m[i] = l[i + d] /\ m[i] \in 0 .. k
    BY <1>2, <1>3, <1>5 DEF Cuts
  <2> QED
    BY <1>4, <2>1, <2>2
<1>6. Turn(new) = me.index + 1
  BY DEF Turn
<1>7. InTurn(k, new, r, at, m)
  <2>1. ASSUME NEW i \in 1 .. Len(r), r[i].kind = "start"
        PROVE  Turn(new) <= m[i] /\ m[i] < UserCount /\ (at = "pause" => m[i] < k)
    BY <1>2, <1>5, <1>6, <2>1 DEF InTurn
  <2>2. ASSUME NEW i \in 1 .. Len(r), r[i].kind = "found"
        PROVE  new.index < m[i]
    <3>1. me.index + 1 <= m[i] /\ m[i] \in 0 .. k
      BY <1>2, <1>5, <2>2
    <3> QED
      BY <3>1
  <2>3. at = "pause" => Turn(new) <= k
    BY <1>4, <1>6
  <2> QED
    BY <1>2, <2>1, <2>2, <2>3 DEF InTurn
<1>8. NotAhead(k, new, out)
  <2>1. me.index <= k /\ me.index < UserCount
    BY <1>4, CountsAreNumbers
  <2> QED
    BY <2>1 DEF NotAhead
<1> QED
  BY <1>2, <1>7, <1>8 DEF Follows

(* A search that is over is over because the user is known or will be. *)
LEMMA FollowsEnd ==
  ASSUME NEW k \in Nat, NEW me, NEW in, NEW out, NEW at, Follows(k, me, in, out, at),
         me.mode = "searching", me.index \in Nat, me.found,
         NEW new, new.mode = "idle", new.index = me.index + 1
  PROVE  Follows(k, new, in, out, at)
<1>1. me.index <= k /\ (me.index < k \/ Reported(out, me.index))
  BY DEF Follows, NotAhead
<1>2. NotAhead(k, new, out)
  <2>1. CASE me.index < k
    BY <2>1 DEF NotAhead
  <2>2. CASE me.index = k /\ Reported(out, k)
    BY <2>2 DEF NotAhead
  <2> QED
    BY <1>1, <2>1, <2>2
<1>3. Turn(new) = Turn(me)
  BY DEF Turn
<1>4. PICK l \in [1 .. Len(in) -> 0 .. k] : InTurn(k, me, in, at, l)
  BY DEF Follows
<1>5. InTurn(k, new, in, at, l)
  BY <1>3, <1>4 DEF InTurn
<1> QED
  BY <1>2, <1>5 DEF Follows

(* A "found" that is read in time: the user searched for is known. *)
LEMMA FollowsFound ==
  ASSUME NEW k \in Nat, NEW me, NEW in, NEW out, NEW at, Follows(k, me, in, out, at),
         me.mode \in {"idle", "searching"}, me.index \in Nat,
         NEW p \in 1 .. Len(in), in[p].kind = "found",
         NEW new, new.mode = me.mode, new.index = me.index
  PROVE  Follows(k, new, in, out, at)
<1>1. PICK l \in [1 .. Len(in) -> 0 .. k] : InTurn(k, me, in, at, l)
  BY DEF Follows
<1>2. NotAhead(k, me, out)
  BY DEF Follows
<1>3. me.mode = "searching" => me.index < k
  BY <1>1 DEF InTurn
<1>4. NotAhead(k, new, out)
  BY <1>2, <1>3 DEF NotAhead
<1>5. Turn(new) = Turn(me)
  BY DEF Turn
<1>6. InTurn(k, new, in, at, l)
  BY <1>1, <1>5 DEF InTurn
<1> QED
  BY <1>4, <1>6 DEF Follows

(* A report: of a user that is not ahead. *)
LEMMA FollowsReport ==
  ASSUME NEW k \in Nat, NEW me, NEW in, NEW out, NEW at, Follows(k, me, in, out, at),
         me.mode = "searching", me.index \in Nat, IsStream(out),
         NEW m, m.kind = "found", m.arg = me.index,
         NEW new, new.mode = me.mode, new.index = me.index
  PROVE  Follows(k, new, in, Append(out, m), at)
<1> DEFINE r == Append(out, m)
<1>1. /\ IsStream(r) /\ Len(out) \in Nat /\ Len(r) = Len(out) + 1
      /\ \A i \in 1 .. Len(out) : r[i] = out[i]
      /\ r[Len(out) + 1] = m
  BY StreamAppend
<1> HIDE DEF r
<1>2. me.index <= k /\ me.index < UserCount
  BY DEF Follows, NotAhead
<1>3. Reported(r, me.index)
  <2>1. Len(out) + 1 \in 1 .. Len(r)
    BY <1>1
  <2> QED
    BY <1>1, <2>1 DEF Reported
<1>4. NotAhead(k, new, r)
  BY <1>2, <1>3 DEF NotAhead
<1>5. PICK l \in [1 .. Len(in) -> 0 .. k] : InTurn(k, me, in, at, l)
  BY DEF Follows
<1>6. Turn(new) = Turn(me)
  BY DEF Turn
<1>7. InTurn(k, new, in, at, l)
  BY <1>5, <1>6 DEF InTurn
<1>8. ASSUME NEW i \in 1 .. Len(r), r[i].kind = "found"  PROVE r[i].arg <= k /\ r[i].arg < UserCount
  <2>1. CASE i \in 1 .. Len(out)
    BY <1>1, <1>8, <2>1 DEF Follows
  <2>2. CASE i = Len(out) + 1
    BY <1>1, <1>2, <2>2
  <2> QED
    BY <1>1, <2>1, <2>2
<1>9. Follows(k, new, in, r, at)
  BY <1>4, <1>7, <1>8 DEF Follows
<1> QED
  BY <1>9 DEF r

(* A message more, or none. *)
LEMMA OneMore ==
  ASSUME NEW in, IsStream(in), NEW kind, NEW r, r = in \/ \E m : m.kind = kind /\ r = Append(in, m)
  PROVE  /\ Len(in) \in Nat
         /\ Len(r) = Len(in) \/ (Len(r) = Len(in) + 1 /\ r[Len(in) + 1].kind = kind)
         /\ \A i \in 1 .. Len(in) : i \in 1 .. Len(r) /\ r[i] = in[i]
<1>1. Len(in) \in Nat
  BY StreamLen
<1>2. CASE r = in
  BY <1>1, <1>2
<1>3. CASE \E m : m.kind = kind /\ r = Append(in, m)
  <2>1. PICK m : m.kind = kind /\ r = Append(in, m)
    BY <1>3
  <2>2. /\ Len(r) = Len(in) + 1 /\ r[Len(in) + 1] = m
        /\ \A i \in 1 .. Len(in) : r[i] = in[i]
    BY <2>1, StreamAppend
  <2> QED
    BY <1>1, <2>1, <2>2
<1> QED
  BY <1>2, <1>3

(* The server has learned one answer more, and says so, or cannot; then it *)
(* pauses or not.                                                          *)
LEMMA FollowsMore ==
  ASSUME NEW k \in Nat, NEW me, NEW in, NEW out, NEW at, Follows(k, me, in, out, at),
         me.index \in Nat, IsStream(in), NEW r, NEW new, NEW later,
         r = in \/ \E m : m.kind = "found" /\ r = Append(in, m),
         \A i \in 1 .. Len(new) : new[i].kind = "found" => \E j \in 1 .. Len(out) : new[i] = out[j],
         \A j \in 1 .. Len(out) : out[j].kind = "found" => out[j].arg \in Nat
  PROVE  Follows(k + 1, me, r, new, later)
<1>1. ASSUME NEW i \in 1 .. Len(new), new[i].kind = "found"  PROVE new[i].arg <= k + 1 /\ new[i].arg < UserCount
  <2>1. PICK j \in 1 .. Len(out) : new[i] = out[j]
    BY <1>1
  <2>2. out[j].arg <= k /\ out[j].arg \in Nat /\ out[j].arg < UserCount
    BY <1>1, <2>1 DEF Follows
  <2> QED
    BY <2>1, <2>2
<1> SUFFICES ASSUME me.mode \in {"idle", "searching"}
             PROVE  /\ NotAhead(k + 1, me, new)
                    /\ \E l \in [1 .. Len(r) -> 0 .. k + 1] : InTurn(k + 1, me, r, later, l)
  BY <1>1, Zenon DEF Follows
<1>0. NotAhead(k, me, out) /\ \E l \in [1 .. Len(in) -> 0 .. k] : InTurn(k, me, in, at, l)
  BY Zenon DEF Follows
<1>2. Turn(me) <= k + 1 /\ (me.mode = "searching" => me.index <= k /\ me.index < UserCount)
  BY <1>0 DEF NotAhead, Turn
<1>3. NotAhead(k + 1, me, new)
  BY <1>2 DEF NotAhead, Turn
<1>4. PICK l \in [1 .. Len(in) -> 0 .. k] : InTurn(k, me, in, at, l)
  BY <1>0
<1>5. Len(in) \in Nat
  BY StreamLen
<1>6. Len(r) = Len(in) \/ (Len(r) = Len(in) + 1 /\ r[Len(in) + 1].kind = "found")
  BY OneMore
<1>7. \A i \in 1 .. Len(in) : i \in 1 .. Len(r) /\ r[i] = in[i]
  BY OneMore, SMTT(40)
<1> DEFINE m == [i \in 1 .. Len(r) |-> IF i <= Len(in) THEN l[i] ELSE k + 1]
<1>8. /\ m \in [1 .. Len(r) -> 0 .. k + 1]
      /\ \A i \in 1 .. Len(in) : m[i] = l[i] /\ m[i] \in 0 .. k
      /\ Len(r) = Len(in) + 1 => m[Len(in) + 1] = k + 1
  BY <1>4, <1>5, <1>6, <1>7, SMTT(40)
<1> HIDE DEF m
<1>9. \A i \in 1 .. Len(r) : i \in 1 .. Len(in) \/ (Len(r) = Len(in) + 1 /\ i = Len(in) + 1)
  BY <1>5, <1>6
<1>10. InTurn(k + 1, me, r, later, m)
  <2>0. \A i \in 1 .. Len(r) : m[i] \in 0 .. k + 1
    BY <1>8
  <2>1. ASSUME NEW i \in 1 .. Len(r), r[i].kind = "start"
        PROVE  i \in 1 .. Len(in) /\ in[i].kind = "start" /\ m[i] = l[i] /\ m[i] <= k
    <3>1. i \in 1 .. Len(in)
      BY <1>6, <1>9, <2>1
    <3> QED
      BY <1>7, <1>8, <2>1, <3>1
  <2>2. ASSUME NEW i \in 1 .. Len(r), NEW j \in 1 .. Len(r),
               i < j, r[i].kind = "start", r[j].kind \in {"start", "found"}
        PROVE  m[i] < m[j]
    <3>1. i \in 1 .. Len(in) /\ in[i].kind = "start" /\ m[i] = l[i] /\ m[i] \in 0 .. k
      BY <1>8, <2>1, <2>2
    <3>2. CASE j \in 1 .. Len(in)
      <4>1. l[i] < l[j]
        BY <1>4, <1>7, <2>2, <3>1, <3>2 DEF InTurn
      <4> QED
        BY <1>8, <3>1, <3>2, <4>1
    <3>3. CASE Len(r) = Len(in) + 1 /\ j = Len(in) + 1
      BY <1>8, <3>1, <3>3
    <3> QED
      BY <1>9, <3>2, <3>3
  <2>3. ASSUME NEW i \in 1 .. Len(r), r[i].kind = "start"
        PROVE  Turn(me) <= m[i] /\ m[i] < UserCount /\ (later = "pause" => m[i] < k + 1)
    <3>1. i \in 1 .. Len(in) /\ in[i].kind = "start" /\ m[i] = l[i] /\ m[i] \in 0 .. k
      BY <1>8, <2>1, <2>3
    <3>2. Turn(me) <= l[i] /\ l[i] < UserCount
      BY <1>4, <3>1 DEF InTurn
    <3> QED
      BY <3>1, <3>2
  <2>4. ASSUME NEW i \in 1 .. Len(r), me.mode = "searching", r[i].kind = "found"
        PROVE  me.index < m[i]
    <3>1. CASE i \in 1 .. Len(in)
      BY <1>4, <1>7, <1>8, <2>4, <3>1 DEF InTurn
    <3>2. CASE Len(r) = Len(in) + 1 /\ i = Len(in) + 1
      BY <1>2, <1>8, <2>4, <3>2
    <3> QED
      BY <1>9, <3>1, <3>2
  <2> QED
    BY <1>2, <2>0, <2>2, <2>3, <2>4 DEF InTurn
<1> QED
  BY <1>3, <1>8, <1>10

(* After the pause everybody is started who can be reached. *)
LEMMA FollowsNext ==
  ASSUME NEW k \in Nat, NEW me, NEW in, NEW out, Follows(k, me, in, out, "pause"),
         k < UserCount, me.index \in Nat, IsStream(in), NEW r, r = in \/ \E m : m.kind = "start" /\ r = Append(in, m)
  PROVE  Follows(k, me, r, out, "menu")
<1> SUFFICES ASSUME me.mode \in {"idle", "searching"}
             PROVE  \E l \in [1 .. Len(r) -> 0 .. k] : InTurn(k, me, r, "menu", l)
  BY DEF Follows
<1>4. PICK l \in [1 .. Len(in) -> 0 .. k] : InTurn(k, me, in, "pause", l)
  BY DEF Follows
<1>2. Turn(me) <= k
  BY <1>4 DEF InTurn
<1>5. Len(in) \in Nat
  BY StreamLen
<1>6. Len(r) = Len(in) \/ (Len(r) = Len(in) + 1 /\ r[Len(in) + 1].kind = "start")
  BY OneMore
<1>7. \A i \in 1 .. Len(in) : i \in 1 .. Len(r) /\ r[i] = in[i]
  BY OneMore
<1> DEFINE m == [i \in 1 .. Len(r) |-> IF i <= Len(in) THEN l[i] ELSE k]
<1>8. /\ m \in [1 .. Len(r) -> 0 .. k]
      /\ \A i \in 1 .. Len(in) : m[i] = l[i] /\ m[i] \in 0 .. k
      /\ Len(r) = Len(in) + 1 => m[Len(in) + 1] = k
  BY <1>4, <1>5, <1>6, <1>7
<1> HIDE DEF m
<1>9. \A i \in 1 .. Len(r) : i \in 1 .. Len(in) \/ (Len(r) = Len(in) + 1 /\ i = Len(in) + 1)
  BY <1>5, <1>6
<1>10. InTurn(k, me, r, "menu", m)
  <2>0. \A i \in 1 .. Len(r) : m[i] \in 0 .. k
    BY <1>8
  <2>2. ASSUME NEW i \in 1 .. Len(r), NEW j \in 1 .. Len(r),
               i < j, r[i].kind = "start", r[j].kind \in {"start", "found"}
        PROVE  m[i] < m[j]
    <3>1. i \in 1 .. Len(in)
      BY <1>5, <1>6, <1>9, <2>2
    <3>2. CASE j \in 1 .. Len(in)
      <4>1. l[i] < l[j]
        BY <1>4, <1>7, <2>2, <3>1, <3>2 DEF InTurn
      <4> QED
        BY <1>8, <3>1, <3>2, <4>1
    <3>3. CASE Len(r) = Len(in) + 1 /\ j = Len(in) + 1
      <4>1. l[i] < k
        BY <1>4, <1>7, <2>2, <3>1 DEF InTurn
      <4> QED
        BY <1>8, <3>1, <3>3, <4>1
    <3> QED
      BY <1>9, <3>2, <3>3
  <2>3. ASSUME NEW i \in 1 .. Len(r), r[i].kind = "start"
        PROVE  Turn(me) <= m[i] /\ m[i] < UserCount
    <3>1. CASE i \in 1 .. Len(in)
      BY <1>4, <1>7, <1>8, <2>3, <3>1 DEF InTurn
    <3>2. CASE Len(r) = Len(in) + 1 /\ i = Len(in) + 1
      BY <1>2, <1>8, <3>2
    <3> QED
      BY <1>9, <3>1, <3>2
  <2>4. ASSUME NEW i \in 1 .. Len(r), me.mode = "searching", r[i].kind = "found"
        PROVE  me.index < m[i]
    <3>1. CASE i \in 1 .. Len(in)
      BY <1>4, <1>7, <1>8, <2>4, <3>1 DEF InTurn
    <3>2. CASE Len(r) = Len(in) + 1 /\ i = Len(in) + 1
      BY <1>6, <2>4, <3>2
    <3> QED
      BY <1>9, <3>1, <3>2
  <2> QED
    BY <2>0, <2>2, <2>3, <2>4 DEF InTurn
<1> QED
  BY <1>8, <1>10

(* The first start, when everything is quiet. *)
LEMMA FollowsFirst ==
  ASSUME NEW k \in Nat, NEW me, NEW at, Follows(k, me, << >>, << >>, at),
         k < UserCount, at = "menu", me.mode # "searching", me.index \in Nat, NEW r,
         \E m : m.kind = "start" /\ r = Append(<< >>, m)
  PROVE  Follows(k, me, r, << >>, at)
<1>1. Len(r) = 1 /\ r[1].kind = "start" /\ Len(<< >>) = 0
  BY EmptyStream, StreamAppend
<1> SUFFICES ASSUME me.mode = "idle"
             PROVE  \E l \in [1 .. 1 -> 0 .. k] : InTurn(k, me, r, at, l)
  BY <1>1 DEF Follows
<1>2. me.index <= k
  BY <1>1 DEF Follows, NotAhead, Reported
<1> DEFINE l == [i \in 1 .. 1 |-> k]
<1>3. l \in [1 .. 1 -> 0 .. k] /\ l[1] = k
  OBVIOUS
<1> HIDE DEF l
<1>4. \A i, j \in 1 .. Len(r) : i = 1 /\ j = 1
  BY <1>1
<1>5. InTurn(k, me, r, at, l)
  BY <1>1, <1>2, <1>3, <1>4 DEF InTurn, Turn
<1> QED
  BY <1>3, <1>5

(* Taking the users back sets a worker to the first. *)
LEMMA FollowsAfresh ==
  ASSUME NEW k \in Nat, NEW me, NEW in, NEW out, NEW at, Follows(k, me, in, out, at),
         me.mode = "idle", me.index \in Nat, NEW new, new.mode = "idle", new.index = 0
  PROVE  Follows(k, new, in, out, at)
<1>1. PICK l \in [1 .. Len(in) -> 0 .. k] : InTurn(k, me, in, at, l)
  BY DEF Follows
<1>2. Turn(new) = 0
  BY DEF Turn
<1>3. InTurn(k, new, in, at, l)
  BY <1>1, <1>2 DEF InTurn
<1>4. NotAhead(k, new, out)
  BY DEF NotAhead
<1> QED
  BY <1>3, <1>4 DEF Follows

LEMMA FollowsCrash ==
  ASSUME NEW k \in Nat, NEW me, NEW in, NEW out, NEW at, Follows(k, me, in, out, at),
         NEW r, NEW new, new.mode = "crashed"
  PROVE  Follows(k, new, r, out, at)
BY DEF Follows

LEMMA OrderRead ==
  ASSUME SharingInv, NEW w \in Workers, WorkerRead(w), ~astray', NEW k \in Nat,
         Follows(k, worker[w], toWorker[w], toServer[w], server.at)
  PROVE  Follows(k, worker'[w], toWorker'[w], toServer'[w], server.at)
<1> DEFINE in == toWorker[w]
           out == toServer[w]
           me == worker[w]
           new == worker'[w]
           at == server.at
           r == Without(in, 256)
<1>1. /\ DOMAIN worker = Workers /\ DOMAIN toWorker = Workers /\ DOMAIN toServer = Workers
      /\ DOMAIN me = WorkerFields /\ me.index \in Nat /\ IsStream(in) /\ Len(in) \in Nat
  BY StreamLen DEF SharingInv, Sound
<1>2. me.mode = "idle" /\ toWorker'[w] = r /\ toServer'[w] = out
  BY <1>1, ReadOutcome
<1>a. IsStream(in) /\ 256 \in Nat
  BY <1>1
<1>0. PICK d \in 0 .. Len(in) : ReadTo(in, 256, r, d)
  BY <1>a, ReadFromStream, Zenon
<1>3. /\ Remains(in, r, d)
      /\ \A m \in Seen(in, 256) :
           \E n \in 1 .. Len(in) :
             m = in[n] /\ \A i \in 1 .. Len(r) : r[i].kind \notin Cuts => n < i + d
  BY <1>0 DEF ReadTo
<1>4. \/ new.mode = me.mode /\ new.index = me.index /\ new.found = me.found
      \/ new.mode = "crashed"
      \/ new.mode = "idle" /\ new.index = 0
      \/ /\ "start" \in Kinds(Seen(in, 256))
         /\ new.mode = "searching" /\ new.index = me.index /\ new.found = FALSE
  <2> USE <1>1, <1>2 DEF WorkerFields
  <2>2. CASE UNCHANGED worker
    BY <2>2
  <2>3. CASE \E info : worker' = [worker EXCEPT ![w].socket_id = info[1], ![w].num_thread = info[2],
                                              ![w].client_count = info[3], ![w].elements = info[4]]
    BY <2>3
  <2>4. CASE worker' = [worker EXCEPT ![w].u = @ + 1]
    BY <2>4
  <2>5. CASE worker' = [worker EXCEPT ![w].mode = "crashed"]
    BY <2>5
  <2>6. CASE \E user : worker' = [worker EXCEPT ![w].u = @ + 1, ![w].elements = @ + 1,
                                                ![w].nodes = InsertAt(@, me.u + 1, user)]
    BY <2>6
  <2>7. CASE worker' = [worker EXCEPT ![w].elements = 0, ![w].num_thread = 0, ![w].nodes = Tail(@),
                                      ![w].index = 0, ![w].u = 0]
    BY <2>7
  <2>8. CASE /\ Obeyed(Kinds(ReadBy(w))) = "start"
             /\ worker' = [worker EXCEPT ![w].mode = "searching", ![w].found = FALSE,
                                         ![w].has = FALSE, ![w].listeners = @ + 1]
    <3>1. new = [me EXCEPT !.mode = "searching", !.found = FALSE, !.has = FALSE, !.listeners = @ + 1]
      BY <2>8
    <3>2. new.mode = "searching" /\ new.index = me.index /\ ~new.found /\ new.found = FALSE
      BY <3>1
    <3>3. UNCHANGED worker \/ Obeyed(Kinds(Seen(in, 256))) = "start"
      BY <2>8, NotMisled
    <3>4. UNCHANGED worker \/ "start" \in Kinds(Seen(in, 256))
      BY <3>3, ObeyedIsThere
    <3> QED
      BY <2>2, <3>2, <3>4, Zenon
  <2>9. Outcome(w)
    BY ReadOutcome, Zenon
  <2> HIDE <1>1, <1>2
  <2> HIDE DEF new, WorkerFields
  <2> QED
    BY <2>2, <2>3, <2>4, <2>5, <2>6, <2>7, <2>8, <2>9, Zenon DEF Outcome
<1> HIDE DEF new, r, in, out, me, at
<1>5. Follows(k, me, in, out, at)
  BY DEF me, in, out, at
<1> SUFFICES Follows(k, new, r, out, at)
  BY <1>2 DEF new, at
<1>6. Follows(k, me, r, out, at)
  BY <1>1, <1>3, <1>5, FollowsRead
<1>7. CASE new.mode = me.mode /\ new.index = me.index /\ new.found = me.found
  BY <1>1, <1>3, <1>5, <1>7, FollowsRead
<1>8. CASE new.mode = "crashed"
  BY <1>5, <1>8, FollowsCrash
<1>9. CASE new.mode = "idle" /\ new.index = 0
  BY <1>1, <1>2, <1>6, <1>9, FollowsAfresh
<1>10. CASE /\ "start" \in Kinds(Seen(in, 256))
            /\ new.mode = "searching" /\ new.index = me.index /\ new.found = FALSE
  <2>1. PICK m \in Seen(in, 256) : m.kind = "start"
    BY <1>10 DEF Kinds
  <2>2. PICK p \in 1 .. Len(in) :
          m = in[p] /\ \A i \in 1 .. Len(r) : r[i].kind \notin Cuts => p < i + d
    BY <1>3
  <2>3. in[p].kind = "start"
    BY <2>1, <2>2
  <2> QED
    BY <1>1, <1>2, <1>3, <1>5, <1>10, <2>2, <2>3, FollowsStart
<1> QED
  BY <1>4, <1>7, <1>8, <1>9, <1>10

LEMMA OrderWorker ==
  ASSUME SharingInv, NEW w \in Workers, WorkerStep(w), ~astray', NEW k \in Nat,
         Follows(k, worker[w], toWorker[w], toServer[w], server.at)
  PROVE  Follows(k, worker'[w], toWorker'[w], toServer'[w], server.at)
<1> DEFINE in == toWorker[w]
           out == toServer[w]
           me == worker[w]
           new == worker'[w]
           at == server.at
<1>1. /\ DOMAIN worker = Workers /\ DOMAIN toWorker = Workers /\ DOMAIN toServer = Workers
      /\ DOMAIN me = WorkerFields /\ me.index \in Nat
      /\ IsStream(in) /\ Len(in) \in Nat /\ IsStream(out)
  BY StreamLen DEF SharingInv, Sound
<1>2. Follows(k, me, in, out, at)
  OBVIOUS
<1>3. CASE Listen(w)
  <2> DEFINE r == Without(in, 40)
  <2>1. PICK d \in 0 .. Len(in) :
          /\ Remains(in, r, d)
          /\ \A m \in Seen(in, 40) : \E n \in 1 .. Len(in) : m = in[n]
    BY <1>1, ReadFromStream DEF ReadTo
  <2>2. me.mode \in {"idle", "searching"} /\ toWorker'[w] = r /\ toServer'[w] = out
    BY <1>1, <1>3 DEF Listen
  <2>3. CASE "found" \in Kinds(Seen(in, 40))
    <3>1. new.mode = me.mode /\ new.index = me.index
      BY <1>1, <1>3, <2>3 DEF Listen, WorkerFields
    <3>2. PICK p \in 1 .. Len(in) : in[p].kind = "found"
      BY <2>1, <2>3 DEF Kinds
    <3> HIDE DEF in, out, me, new, at, r
    <3>3. Follows(k, new, in, out, at)
      BY <1>1, <1>2, <2>2, <3>1, <3>2, FollowsFound
    <3>4. Follows(k, new, r, out, at)
      BY <1>1, <2>1, <3>3, FollowsRead
    <3> QED
      BY <2>2, <3>4 DEF new, at
  <2>4. CASE "found" \notin Kinds(Seen(in, 40))
    <3>1. new = me
      BY <1>3, <2>4 DEF Listen
    <3> HIDE DEF in, out, me, new, at, r
    <3>2. Follows(k, new, r, out, at)
      BY <1>1, <1>2, <2>1, <3>1, FollowsRead
    <3> QED
      BY <2>2, <3>2 DEF new, at
  <2> QED
    BY <2>3, <2>4
<1>4. CASE Discover(w) \/ SeeAnswer(w)
  <2>1. /\ new.mode = me.mode /\ new.index = me.index /\ new.found = me.found
        /\ toWorker'[w] = in /\ toServer'[w] = out
    BY <1>1, <1>4 DEF Discover, SeeAnswer, WorkerFields
  <2>2. Remains(in, in, 0)
    BY <1>1 DEF Remains
  <2> HIDE DEF in, out, me, new, at
  <2>3. Follows(k, new, in, out, at)
    BY <1>1, <1>2, <2>1, <2>2, FollowsRead
  <2> QED
    BY <2>1, <2>3 DEF new, at
<1>5. CASE Report(w)
  <2> DEFINE m == [Frame("found") EXCEPT !.arg = me.index]
  <2>1. /\ toWorker'[w] = in /\ toServer'[w] = Append(out, m) /\ me.mode = "searching"
        /\ new.mode = me.mode /\ new.index = me.index
    BY <1>1, <1>5 DEF Report, WorkerFields
  <2>2. m.kind = "found" /\ m.arg = me.index
    BY DEF Frame
  <2> HIDE DEF in, out, me, new, at, m
  <2>3. Follows(k, new, in, Append(out, m), at)
    BY <1>1, <1>2, <2>1, <2>2, FollowsReport
  <2> QED
    BY <2>1, <2>3 DEF new, at
<1>6. CASE EndSearch(w)
  <2>1. /\ toWorker'[w] = in /\ toServer'[w] = out /\ me.mode = "searching" /\ me.found
        /\ new.mode = "idle" /\ new.index = me.index + 1
    BY <1>1, <1>6 DEF EndSearch, WorkerFields
  <2> HIDE DEF in, out, me, new, at
  <2>2. Follows(k, new, in, out, at)
    BY <1>1, <1>2, <2>1, FollowsEnd
  <2> QED
    BY <2>1, <2>2 DEF new, at
<1>7. CASE TypeExit(w)
  <2> DEFINE r == Append(out, Frame("exit"))
  <2>1. toWorker'[w] = in /\ toServer'[w] = r /\ new.mode = "gone"
    BY <1>1, <1>7 DEF TypeExit, WorkerFields
  <2>2. /\ IsStream(r) /\ Len(out) \in Nat /\ Len(r) = Len(out) + 1
        /\ \A i \in 1 .. Len(out) : r[i] = out[i]
        /\ r[Len(out) + 1] = Frame("exit")
    BY <1>1, StreamAppend
  <2> HIDE DEF r
  <2>3. ASSUME NEW i \in 1 .. Len(r), r[i].kind = "found"  PROVE r[i].arg <= k /\ r[i].arg < UserCount
    <3>1. i # Len(out) + 1
      BY <2>2, <2>3 DEF Frame
    <3>2. i \in 1 .. Len(out)
      BY <2>2, <3>1
    <3> QED
      BY <1>2, <2>2, <2>3, <3>2 DEF Follows
  <2> HIDE DEF in, out, me, new, at
  <2>4. Follows(k, new, in, r, at)
    BY <2>1, <2>3 DEF Follows
  <2> QED
    BY <2>1, <2>4 DEF new, at
<1> QED
  BY <1>3, <1>4, <1>5, <1>6, <1>7, OrderRead DEF WorkerStep

(* The steps of the server. *)
LEMMA FollowsElsewhere ==
  ASSUME NEW k, NEW me, NEW in, NEW out, NEW at, Follows(k, me, in, out, at),
         NEW later, later # "pause"
  PROVE  Follows(k, me, in, out, later)
BY DEF Follows, InTurn

LEMMA OrderMenu ==
  ASSUME SharingInv, NEW k \in Nat, OrderAt(k), ~astray',
         \/ SendSocketInfo \/ SendUserInfo \/ StartSearch \/ StartNext
         \/ Relay("text") \/ Relay("display")
  PROVE  OrderAt(k)'
<1>1. /\ \A w \in Workers : /\ Follows(k, worker[w], toWorker[w], toServer[w], server.at)
                            /\ IsStream(toWorker[w]) /\ IsStream(toServer[w])
                            /\ worker[w].index \in Nat
      /\ server.known = 0 .. k - 1
  BY DEF OrderAt, SharingInv, Sound
<1>2. DOMAIN server = ServerFields
  BY DEF SharingInv, ServerSound
<1>3. CASE SendSocketInfo
  <2>1. PICK at \in AfterWriting("menu") : server' = [server EXCEPT !.at = at]
    BY <1>3 DEF SendSocketInfo
  <2>2. at \in {"menu", "killed"} /\ server.at = "menu" /\ UNCHANGED <<worker, toServer>>
    BY <1>3, AfterWritingIs DEF SendSocketInfo, Chosen
  <2>3. ASSUME NEW w \in Workers
        PROVE  Follows(k, worker[w], toWorker'[w], toServer[w], "menu")
    <3>1. CASE Reached(w)
      <4> DEFINE m == [Frame("send") EXCEPT
                         !.arg = <<worker[w].fd, server.num_thread, server.client_count, UserCount>>]
      <4>1. toWorker'[w] = Append(toWorker[w], m)
        BY <1>3, <3>1 DEF SendSocketInfo
      <4>2. m.kind \notin {"start", "found"}
        BY DEF Frame
      <4> HIDE DEF m
      <4> QED
        BY <1>1, <2>2, <4>1, <4>2, FollowsAppend
    <3>2. CASE ~Reached(w)
      BY <1>1, <1>3, <2>2, <3>2 DEF SendSocketInfo
    <3> QED
      BY <3>1, <3>2
  <2>4. server'.known = server.known /\ server'.at \in {"menu", "killed"}
    BY <1>2, <2>1, <2>2 DEF ServerFields
  <2> QED
    BY <1>1, <2>2, <2>3, <2>4, FollowsElsewhere DEF OrderAt
<1>4. CASE SendUserInfo
  <2>1. PICK at \in AfterWriting("menu") : server' = [server EXCEPT !.at = at]
    BY <1>4 DEF SendUserInfo
  <2>2. at \in {"menu", "killed"} /\ server.at = "menu" /\ UNCHANGED <<worker, toServer>>
    BY <1>4, AfterWritingIs DEF SendUserInfo, Chosen
  <2>3. ASSUME NEW w \in Workers
        PROVE  Follows(k, worker[w], toWorker'[w], toServer[w], "menu")
    <3>1. CASE Reached(w)
      <4> DEFINE f == [u \in 1 .. UserCount |-> [Frame("user") EXCEPT !.arg = u - 1]]
                 U == {f[u] : u \in 1 .. UserCount}
                 r == toWorker[w] \o f
      <4>1. toWorker'[w] = r
        BY <1>4, <3>1 DEF SendUserInfo
      <4>2. f \in [1 .. UserCount -> U] /\ \A i \in 1 .. UserCount : f[i].kind \notin {"start", "found"}
        BY DEF Frame
      <4>3. UserCount \in Nat
        BY CountIsNumber
      <4> HIDE DEF f, U
      <4>4. Lengthened(toWorker[w], UserCount, f, r)
        BY <1>1, <4>2, <4>3, StreamConcat
      <4> HIDE DEF r
      <4>5. Len(toWorker[w]) \in Nat
        BY <1>1, StreamLen
      <4> QED
        BY <1>1, <2>2, <4>1, <4>2, <4>3, <4>4, <4>5, FollowsLonger
    <3>2. CASE ~Reached(w)
      BY <1>1, <1>4, <2>2, <3>2 DEF SendUserInfo
    <3> QED
      BY <3>1, <3>2
  <2>4. server'.known = server.known /\ server'.at \in {"menu", "killed"}
    BY <1>2, <2>1, <2>2 DEF ServerFields
  <2> QED
    BY <1>1, <2>2, <2>3, <2>4, FollowsElsewhere DEF OrderAt
<1>5. CASE StartSearch
  <2>1. CASE UNCHANGED <<server, toWorker>>
    BY <1>1, <1>5, <2>1 DEF StartSearch, OrderAt
  <2>2. CASE ~UNCHANGED <<server, toWorker>>
    <3>1. PICK at \in AfterWriting("menu") : server' = [server EXCEPT !.at = at]
      BY <1>5, <2>2 DEF StartSearch
    <3>2. /\ at \in {"menu", "killed"} /\ server.at = "menu" /\ UNCHANGED <<worker, toServer>>
          /\ toWorker' = Sent(Short("start"))
      BY <1>5, <2>2, AfterWritingIs DEF StartSearch, Chosen
    <3>0. k < UserCount
      <4>1. server.user_no \notin 0 .. k - 1
        BY <1>1, <1>5, <2>2 DEF StartSearch
      <4>2. server.user_no \in 0 .. UserCount - 1
        BY DEF SharingInv, ServerSound
      <4> QED
        BY <4>1, <4>2, CountsAreNumbers
    <3>3. ASSUME NEW w \in Workers
          PROVE  Follows(k, worker[w], toWorker'[w], toServer[w], "menu")
      <4>1. toWorker[w] = << >> /\ toServer[w] = << >> /\ worker[w].mode # "searching"
        BY <1>5, <2>2 DEF StartSearch, Quiet
      <4>2. CASE Reached(w)
        <5>1. toWorker'[w] = Append(<< >>, Short("start")) /\ Short("start").kind = "start"
          BY <3>2, <4>1, <4>2 DEF Sent, Short
        <5>2. Follows(k, worker[w], << >>, << >>, "menu")
          BY <1>1, <3>2, <4>1
        <5> QED
          BY <1>1, <3>0, <4>1, <5>1, <5>2, FollowsFirst
      <4>3. CASE ~Reached(w)
        BY <1>1, <3>2, <4>3 DEF Sent
      <4> QED
        BY <4>2, <4>3
    <3>4. server'.known = server.known /\ server'.at \in {"menu", "killed"}
      BY <1>2, <3>1, <3>2 DEF ServerFields
    <3> QED
      BY <1>1, <3>2, <3>3, <3>4, FollowsElsewhere DEF OrderAt
  <2> QED
    BY <2>1, <2>2
<1>6. CASE StartNext
  <2>1. PICK at \in AfterWriting("menu") : server' = [server EXCEPT !.at = at]
    BY <1>6 DEF StartNext
  <2>2. /\ at \in {"menu", "killed"} /\ server.at = "pause" /\ UNCHANGED <<worker, toServer>>
        /\ toWorker' = Sent(Frame("start"))
    BY <1>6, AfterWritingIs DEF StartNext
  <2>3. ASSUME NEW w \in Workers
        PROVE  Follows(k, worker[w], toWorker'[w], toServer[w], "menu")
    <3>1. toWorker'[w] = toWorker[w] \/ toWorker'[w] = Append(toWorker[w], Frame("start"))
      BY <2>2 DEF Sent
    <3>2. \/ toWorker'[w] = toWorker[w]
          \/ \E m : m.kind = "start" /\ toWorker'[w] = Append(toWorker[w], m)
      BY <3>1 DEF Frame
    <3> QED
      BY <1>1, <2>2, <3>2, FollowsNext DEF OrderAt
  <2>4. server'.known = server.known /\ server'.at \in {"menu", "killed"}
    BY <1>2, <2>1, <2>2 DEF ServerFields
  <2> QED
    BY <1>1, <2>2, <2>3, <2>4, FollowsElsewhere DEF OrderAt
<1>7. CASE Relay("text") \/ Relay("display")
  <2>1. PICK kind \in {"text", "display"} : Relay(kind)
    BY <1>7
  <2>2. PICK at \in AfterWriting("menu") : server' = [server EXCEPT !.at = at]
    BY <2>1 DEF Relay
  <2>3. /\ at \in {"menu", "killed"} /\ server.at = "menu" /\ UNCHANGED <<worker, toServer>>
        /\ toWorker' = Sent(Frame(kind))
    BY <2>1, AfterWritingIs DEF Relay, Chosen
  <2>4. ASSUME NEW w \in Workers
        PROVE  Follows(k, worker[w], toWorker'[w], toServer[w], "menu")
    <3>1. toWorker'[w] = toWorker[w] \/ toWorker'[w] = Append(toWorker[w], Frame(kind))
      BY <2>3 DEF Sent
    <3>2. Frame(kind).kind \notin {"start", "found"}
      BY <2>1 DEF Frame
    <3>3. IsStream(toWorker[w]) /\ Follows(k, worker[w], toWorker[w], toServer[w], "menu")
      BY <1>1, <2>3
    <3>4. Follows(k, worker[w], Append(toWorker[w], Frame(kind)), toServer[w], "menu")
      BY <3>2, <3>3, FollowsAppend
    <3> QED
      BY <3>1, <3>3, <3>4
  <2>5. server'.known = server.known /\ server'.at \in {"menu", "killed"}
    BY <1>2, <2>2, <2>3 DEF ServerFields
  <2> QED
    BY <1>1, <2>3, <2>4, <2>5, FollowsElsewhere DEF OrderAt
<1> QED
  BY <1>3, <1>4, <1>5, <1>6, <1>7

LEMMA OrderAccept ==
  ASSUME SharingInv, NEW k \in Nat, OrderAt(k), NEW w \in Workers, Accept(w)
  PROVE  OrderAt(k)'
<1>1. /\ DOMAIN worker = Workers /\ DOMAIN server = ServerFields
      /\ \A v \in Workers : Sound(worker[v], toWorker[v], toServer[v], server.num_thread)
  BY DEF SharingInv, ServerSound
<1>2. PICK slots :
        /\ server' = [server EXCEPT !.client_count = server.client_count + 1, !.slots = slots]
        /\ worker[w].mode = "off" /\ server.at = "menu"
        /\ worker' = [worker EXCEPT ![w] = [NewWorker EXCEPT !.mode = "idle", !.fd = LowestFd]]
        /\ toWorker' = toWorker /\ toServer' = toServer
  BY DEF Accept
<1>3. server'.known = server.known /\ server'.at = server.at
  BY <1>1, <1>2 DEF ServerFields
<1>4. ASSUME NEW v \in Workers
      PROVE  Follows(k, worker'[v], toWorker'[v], toServer'[v], server.at)
  <2>1. CASE v = w
    <3>1. toWorker'[v] = << >> /\ toServer'[v] = << >>
      BY <1>1, <1>2, <2>1 DEF Sound
    <3>2. worker'[v].mode = "idle" /\ worker'[v].index = 0
      BY <1>1, <1>2, <2>1 DEF NewWorker
    <3> DEFINE me == worker'[v]
    <3> HIDE DEF me
    <3>3. me.mode = "idle" /\ me.index = 0
      BY <3>2 DEF me
    <3>4. NotAhead(k, me, << >>)
      BY <3>3 DEF NotAhead
    <3> DEFINE l == [i \in 1 .. 0 |-> 0]
    <3>5. l \in [1 .. 0 -> 0 .. k]
      OBVIOUS
    <3>6. \A i \in 1 .. Len(<< >>) : FALSE
      BY EmptyStream
    <3>7. InTurn(k, me, << >>, server.at, l)
      BY <1>2, <3>6 DEF InTurn
    <3>8. Len(<< >>) = 0
      BY EmptyStream
    <3>9. Follows(k, me, << >>, << >>, server.at)
      BY <3>4, <3>5, <3>6, <3>7, <3>8 DEF Follows
    <3> QED
      BY <3>1, <3>9 DEF me
  <2>2. CASE v # w
    BY <1>1, <1>2, <2>2 DEF OrderAt
  <2> QED
    BY <2>1, <2>2
<1> QED
  BY <1>3, <1>4 DEF OrderAt

LEMMA OrderHandleExit ==
  ASSUME SharingInv, NEW k \in Nat, OrderAt(k), NEW w \in Workers, HandleExit(w)
  PROVE  OrderAt(k)'
<1>1. /\ DOMAIN worker = Workers /\ DOMAIN toWorker = Workers /\ DOMAIN toServer = Workers
      /\ DOMAIN server = ServerFields /\ server.at = "menu"
      /\ \A v \in Workers : Sound(worker[v], toWorker[v], toServer[v], server.num_thread)
  BY DEF SharingInv, ServerSound, HandleExit
<1> DEFINE out == toServer[w]
           me == [NewWorker EXCEPT !.mode = "off"]
<1>2. /\ out # << >> /\ Head(out).kind = "exit"
      /\ toServer' = [toServer EXCEPT ![w] = Tail(out)]
      /\ toWorker' = [toWorker EXCEPT ![w] = << >>]
      /\ worker' = worker \/ worker' = [worker EXCEPT ![w] = me]
  BY DEF HandleExit
<1>3. server'.known = server.known /\ server'.at = server.at
  BY <1>1 DEF HandleExit, ServerFields
<1>4. me.mode = "off"
  BY DEF NewWorker
<1> HIDE DEF me
<1>5. ASSUME NEW v \in Workers
      PROVE  Follows(k, worker'[v], toWorker'[v], toServer'[v], server.at)
  <2>1. CASE v = w
    <3>1. IsStream(out)
      BY <1>1 DEF Sound
    <3>2. /\ Len(out) \in Nat /\ Len(Tail(out)) = Len(out) - 1 /\ Len(out) > 0
          /\ \A i \in 1 .. Len(Tail(out)) : Tail(out)[i] = out[i + 1]
          /\ Head(out) = out[1]
      BY <1>2, <3>1, StreamTail
    <3>3. 1 \in 1 .. Len(out) /\ out[1].kind = "exit"
      BY <1>2, <3>2
    <3>4. worker[w].mode = "gone" /\ Len(out) = 1
      BY <1>1, <3>3 DEF Sound
    <3>5. worker'[v].mode \notin {"idle", "searching"}
      BY <1>1, <1>2, <1>4, <2>1, <3>4
    <3>6. toServer'[v] = Tail(out)
      BY <1>1, <1>2, <2>1
    <3>7. \A i \in 1 .. Len(toServer'[v]) : FALSE
      BY <3>2, <3>4, <3>6
    <3> QED
      BY <3>5, <3>7 DEF Follows
  <2>2. CASE v # w
    BY <1>1, <1>2, <2>2 DEF OrderAt
  <2> QED
    BY <2>1, <2>2
<1> QED
  BY <1>3, <1>5 DEF OrderAt

(* A report of a user that is known already is one too many.  Any other is *)
(* of the user whose turn it is.                                           *)
LEMMA OrderHandleFound ==
  ASSUME SharingInv, NEW k \in Nat, OrderAt(k), NEW w \in Workers, HandleFound(w), ~astray'
  PROVE  \E j \in Nat : OrderAt(j)'
<1>1. /\ DOMAIN worker = Workers /\ DOMAIN toWorker = Workers /\ DOMAIN toServer = Workers
      /\ DOMAIN server = ServerFields /\ server.at = "menu"
      /\ server.known = 0 .. k - 1
  BY DEF SharingInv, ServerSound, HandleFound, OrderAt
<1>2. \A v \in Workers :
        /\ Follows(k, worker[v], toWorker[v], toServer[v], "menu") /\ worker[v].index \in Nat
        /\ IsStream(toWorker[v]) /\ IsStream(toServer[v])
        /\ \A j \in 1 .. Len(toServer[v]) : toServer[v][j].kind = "found" => toServer[v][j].arg \in Nat
  BY <1>1 DEF SharingInv, Sound, OrderAt
<1> DEFINE out == toServer[w]
           user_no == Head(out).arg
           next == user_no + 1
<1>3. /\ out # << >> /\ Head(out).kind = "found" /\ UNCHANGED worker
      /\ toServer' = [toServer EXCEPT ![w] = Tail(out)] /\ toWorker' = Sent(Frame("found"))
  BY DEF HandleFound
<1>4. /\ Len(out) \in Nat /\ Len(Tail(out)) = Len(out) - 1 /\ Len(out) > 0
      /\ \A i \in 1 .. Len(Tail(out)) : Tail(out)[i] = out[i + 1]
      /\ Head(out) = out[1]
  BY <1>2, <1>3, StreamTail
<1>5. user_no \in 0 .. k /\ user_no < UserCount
  <2>1. 1 \in 1 .. Len(out) /\ out[1].kind = "found"
    BY <1>3, <1>4
  <2>2. out[1].arg <= k /\ out[1].arg \in Nat /\ out[1].arg < UserCount
    BY <1>2, <2>1 DEF Follows
  <2> QED
    BY <1>4, <2>2
<1> HIDE DEF user_no
<1>6. ~(user_no >= UserCount)
  BY <1>5, CountsAreNumbers
<1>7. \E j \in Nat : OrderAt(j)'
  <2>1. PICK at \in AfterWriting(IF next = UserCount THEN "menu" ELSE "pause") :
          server' = [server EXCEPT !.known = @ \cup {user_no},
                                   !.user_no = IF next = UserCount THEN 0 ELSE next,
                                   !.at = at]
    BY <1>6 DEF HandleFound, user_no
  <2>2. server'.known = server.known \cup {user_no} /\ user_no \notin server.known
    <3>1. user_no \notin server.known
      BY <1>6 DEF HandleFound, user_no
    <3> QED
      BY <1>1, <2>1, <3>1 DEF ServerFields
  <2>3. user_no = k
    BY <1>1, <1>5, <2>2
  <2>4. server'.known = 0 .. (k + 1) - 1
    BY <1>1, <2>2, <2>3
  <2>5. ASSUME NEW v \in Workers
        PROVE  Follows(k + 1, worker[v], toWorker'[v], toServer'[v], server'.at)
    <3>1. \/ toWorker'[v] = toWorker[v]
          \/ \E m : m.kind = "found" /\ toWorker'[v] = Append(toWorker[v], m)
      <4>1. toWorker'[v] = toWorker[v] \/ toWorker'[v] = Append(toWorker[v], Frame("found"))
        BY <1>3 DEF Sent
      <4> QED
        BY <4>1 DEF Frame
    <3>2. \A i \in 1 .. Len(toServer'[v]) : \E j \in 1 .. Len(toServer[v]) : toServer'[v][i] = toServer[v][j]
      <4>1. CASE v = w
        <5>1. toServer'[v] = Tail(out)
          BY <1>1, <1>3, <4>1
        <5>2. \A i \in 1 .. Len(Tail(out)) : i + 1 \in 1 .. Len(out) /\ Tail(out)[i] = out[i + 1]
          BY <1>4
        <5> QED
          BY <4>1, <5>1, <5>2
      <4>2. CASE v # w
        BY <1>1, <1>3, <4>2
      <4> QED
        BY <4>1, <4>2
    <3> DEFINE me == worker[v]
               in == toWorker[v]
               sent == toServer[v]
               r == toWorker'[v]
               new == toServer'[v]
               later == server'.at
    <3>3. /\ Follows(k, me, in, sent, "menu") /\ me.index \in Nat /\ IsStream(in)
          /\ \A j \in 1 .. Len(sent) : sent[j].kind = "found" => sent[j].arg \in Nat
      BY <1>2
    <3>4. r = in \/ \E m : m.kind = "found" /\ r = Append(in, m)
      BY <3>1
    <3>5. \A i \in 1 .. Len(new) : new[i].kind = "found" => \E j \in 1 .. Len(sent) : new[i] = sent[j]
      BY <3>2
    <3> HIDE DEF me, in, sent, r, new, later
    <3>6. Follows(k + 1, me, r, new, later)
      BY <3>3, <3>4, <3>5, FollowsMore
    <3> QED
      BY <3>6 DEF me, r, new, later
  <2>6. server'.at = "pause" => k + 1 < UserCount
    <3>1. server'.at \in {IF next = UserCount THEN "menu" ELSE "pause", "killed"}
      BY <1>1, <2>1, AfterWritingIs DEF ServerFields
    <3>2. server'.at = "pause" => next # UserCount
      BY <3>1
    <3> QED
      BY <1>5, <2>3, <3>2, CountsAreNumbers
  <2>7. OrderAt(k + 1)'
    BY <1>3, <2>4, <2>5, <2>6 DEF OrderAt
  <2> QED
    BY <2>7
<1> QED
  BY <1>7

LEMMA OrderInit == WorkInit => OrderInv
<1> SUFFICES ASSUME WorkInit  PROVE OrderAt(0)
  BY DEF OrderInv
<1>1. server.known = {} /\ server.at = "menu"
  BY DEF WorkInit
<1>2. ASSUME NEW w \in Workers  PROVE Follows(0, worker[w], toWorker[w], toServer[w], server.at)
  <2>1. worker[w].mode = "off" /\ toServer[w] = << >>
    BY DEF WorkInit, NewWorker
  <2> QED
    BY <2>1, EmptyStream DEF Follows
<1> QED
  BY <1>1, <1>2 DEF OrderAt

LEMMA OrderNext == SharingInv /\ OrderInv /\ [WorkNext]_workVars => OrderInv'
<1> SUFFICES ASSUME SharingInv, OrderInv, [WorkNext]_workVars, ~astray'
             PROVE  \E k \in Nat : OrderAt(k)'
  BY DEF OrderInv
<1>1. CASE UNCHANGED workVars
  BY <1>1 DEF workVars, OrderInv, OrderAt
<1>2. CASE WorkNext
  <2>1. /\ ~FlushUserInfo
        /\ \A kind \in {"text", "bare", "start", "flush", "found", "display"} :
             Relay(kind) => kind \in {"text", "display"}
    BY <1>2, AstrayStays
  <2>2. PICK k \in Nat : OrderAt(k)
    BY <1>2, AstrayStays DEF OrderInv
  <2>3. ASSUME NEW w \in Workers, WorkerStep(w)  PROVE OrderAt(k)'
    <3>1. Alone(w) /\ UNCHANGED server
      BY <2>3, OthersUntouched DEF Alone
    <3>2. ASSUME NEW v \in Workers
          PROVE  Follows(k, worker'[v], toWorker'[v], toServer'[v], server.at)
      <4>1. Follows(k, worker[v], toWorker[v], toServer[v], server.at)
        BY <2>2 DEF OrderAt
      <4>2. CASE v = w
        BY <2>3, <4>1, <4>2, OrderWorker
      <4>3. CASE v # w
        BY <3>1, <4>1, <4>3 DEF Alone
      <4> QED
        BY <4>2, <4>3
    <3> QED
      BY <2>2, <3>1, <3>2 DEF OrderAt
  <2>4. ASSUME NEW w \in Workers, Accept(w) \/ HandleExit(w)  PROVE OrderAt(k)'
    BY <2>2, <2>4, OrderAccept, OrderHandleExit
  <2>5. ASSUME NEW w \in Workers, HandleFound(w)  PROVE \E j \in Nat : OrderAt(j)'
    BY <2>2, <2>5, OrderHandleFound
  <2>6. CASE \/ SendSocketInfo \/ SendUserInfo \/ StartSearch \/ StartNext
             \/ Relay("text") \/ Relay("display")
    BY <2>2, <2>6, OrderMenu
  <2>7. \/ \E w \in Workers : WorkerStep(w) \/ Accept(w) \/ HandleExit(w) \/ HandleFound(w)
        \/ SendSocketInfo \/ SendUserInfo \/ StartSearch \/ StartNext
        \/ Relay("text") \/ Relay("display")
    BY <1>2, <2>1 DEF WorkNext
  <2> QED
    BY <2>3, <2>4, <2>5, <2>6, <2>7
<1> QED
  BY <1>1, <1>2

(* The users are found in order, however late a worker reads what it was   *)
(* told, whoever joins, leaves or crashes when, and whatever is typed that *)
(* contains no command, until server or workers are led astray.            *)
THEOREM UsersInOrder == WorkSpec => []FoundInOrder
<1>1. OrderInv => FoundInOrder
  <2> SUFFICES ASSUME OrderInv, ~astray, NEW user \in server.known
               PROVE  0 .. user \subseteq server.known
    BY DEF FoundInOrder
  <2>1. PICK k \in Nat : server.known = 0 .. k - 1
    BY DEF OrderInv, OrderAt
  <2> QED
    BY <2>1
<1> QED
  BY <1>1, SharingInit, SharingNext, BufferInit, BufferNext, OrderInit, OrderNext, PTL DEF WorkSpec

-----------------------------------------------------------------------------
(* The letters.  That they are shared out follows from what the team holds *)
(* in one state, by the arithmetic of its parts.                           *)

LEMMA Division ==
  ASSUME NEW p \in Nat, NEW n \in Nat \ {0}
  PROVE  p \div n \in Nat /\ n * (p \div n) <= p /\ p < n * (p \div n + 1)
<1>1. p \div n \in Nat
  OBVIOUS
<1>2. n * (p \div n) + (p % n) = p /\ p % n \in 0 .. n - 1
  OBVIOUS
<1>3. n * (p \div n + 1) = n * (p \div n) + n
  OBVIOUS
<1> QED
  BY <1>1, <1>2, <1>3

LEMMA Times ==
  ASSUME NEW s \in Nat, NEW a \in Nat, NEW b \in Nat, a <= b
  PROVE  s * a <= s * b /\ s * a \in Nat /\ s * b \in Nat
OBVIOUS

(* Of n parts of the same size, one more than fits n times, each letter is *)
(* in one, and in no other.                                                *)
LEMMA PartsCover ==
  ASSUME NEW letters \in Nat, NEW n \in Nat \ {0}, NEW c \in 0 .. letters - 1
  PROVE  LET size == letters \div n + 1
         IN \E q \in 0 .. n - 1 : c \in size * q .. size * (q + 1) - 1
<1> DEFINE size == letters \div n + 1
           q == c \div size
<1>1. size \in Nat \ {0} /\ letters < n * size
  BY Division
<1> HIDE DEF size
<1>2. q \in Nat /\ size * q <= c /\ c < size * (q + 1)
  BY <1>1, Division
<1> HIDE DEF q
<1>3. q < n
  <2> SUFFICES ASSUME n <= q  PROVE FALSE
    BY <1>2
  <2>1. size * n <= size * q /\ size * n \in Nat /\ size * q \in Nat
    BY <1>1, <1>2, Times
  <2>2. n * size = size * n
    BY <1>1
  <2> QED
    BY <1>1, <1>2, <2>1, <2>2
<1>4. size * (q + 1) \in Nat /\ size * q \in Nat
  BY <1>1, <1>2, Times
<1>5. q \in 0 .. n - 1 /\ c \in size * q .. size * (q + 1) - 1
  BY <1>2, <1>3, <1>4
<1> QED
  BY <1>5 DEF size

LEMMA PartsApart ==
  ASSUME NEW size \in Nat, NEW a \in Nat, NEW b \in Nat, a # b
  PROVE  (size * a .. size * (a + 1) - 1) \cap (size * b .. size * (b + 1) - 1) = {}
<1>1. CASE a < b
  BY <1>1, Times
<1>2. CASE b < a
  BY <1>2, Times
<1> QED
  BY <1>1, <1>2

(* Workers who know their number, and how many they are, search every      *)
(* letter once between them, however many letters and workers there are.   *)
THEOREM NoLetterTwice == WorkSpec => []LettersAreShared
<1> DEFINE team == {w \in Workers : Reached(w)}
           n == server.client_count
           ends == FirstFd .. FirstFd + n - 1
           size == PASS_ARR_LEN \div n + 1
           parts == [w \in team |-> worker[w].fd]
<1>1. ASSUME team # {}, Cardinality(team) = n, \A w \in team : Informed(w),
             {worker[w].fd : w \in team} = ends
      PROVE  /\ 0 .. PASS_ARR_LEN - 1 \subseteq UNION {Range0(w) : w \in team}
             /\ \A v, w \in team : v # w => Range0(v) \cap Range0(w) = {}
  <2>1. IsFiniteSet(team) /\ n \in Nat \ {0} /\ PASS_ARR_LEN \in Nat
    <3>1. IsFiniteSet(team)
      BY WorkSharingAssumption, FS_Subset
    <3>2. n \in Nat /\ n # 0
      BY <1>1, <3>1, FS_CardinalityType, FS_EmptySet
    <3> QED
      BY <3>1, <3>2, WorkSharingAssumption
  <2>2. size \in Nat
    BY <2>1, Division
  <2>3. \A w \in team : worker[w].fd \in ends /\ worker[w].fd - FirstFd \in 0 .. n - 1
    <3>1. \A w \in team : worker[w].fd \in ends
      BY <1>1
    <3>2. \A fd \in ends : fd - FirstFd \in 0 .. n - 1
      <4> HIDE DEF n
      <4> QED
        BY <2>1 DEF FirstFd
    <3> QED
      BY <3>1, <3>2
  <2>4. ASSUME NEW w \in team
        PROVE  Range0(w) = size * (worker[w].fd - FirstFd) .. size * (worker[w].fd - FirstFd + 1) - 1
    BY <1>1 DEF Range0, Informed
  <2>5. ASSUME NEW v \in team, NEW w \in team, v # w  PROVE worker[v].fd # worker[w].fd
    <3>1. parts \in [team -> ends]
      BY <2>3
    <3>2. \A fd \in ends : \E w1 \in team : parts[w1] = fd
      BY <1>1
    <3>3. parts \in Surjection(team, ends)
      BY <3>1, <3>2 DEF Surjection
    <3>4. Cardinality(ends) = n
      <4>1. FirstFd \in Int /\ FirstFd + n - 1 \in Int /\ ~(FirstFd > FirstFd + n - 1)
            /\ (FirstFd + n - 1) - FirstFd + 1 = n
        BY <2>1 DEF FirstFd
      <4> HIDE DEF n
      <4> QED
        BY <4>1, FS_Interval
    <3>5. parts \in Injection(team, ends)
      BY <1>1, <2>1, <3>3, <3>4, FS_Surjection
    <3> QED
      BY <2>5, <3>5 DEF Injection, IsInjective
  <2>6. ASSUME NEW c \in 0 .. PASS_ARR_LEN - 1  PROVE \E w \in team : c \in Range0(w)
    <3>1. PICK q \in 0 .. n - 1 : c \in size * q .. size * (q + 1) - 1
      BY <2>1, PartsCover
    <3>2. FirstFd + q \in ends /\ (FirstFd + q) - FirstFd = q
      BY <2>1 DEF FirstFd
    <3>3. PICK w \in team : worker[w].fd = FirstFd + q
      BY <1>1, <3>2
    <3> QED
      BY <2>4, <3>1, <3>2, <3>3
  <2>7. ASSUME NEW v \in team, NEW w \in team, v # w  PROVE Range0(v) \cap Range0(w) = {}
    <3> DEFINE a == worker[v].fd - FirstFd
               b == worker[w].fd - FirstFd
    <3>1. a \in Nat /\ b \in Nat /\ a # b
      BY <2>1, <2>3, <2>5, <2>7 DEF FirstFd
    <3>2. Range0(v) = size * a .. size * (a + 1) - 1 /\ Range0(w) = size * b .. size * (b + 1) - 1
      BY <2>4
    <3> HIDE DEF a, b, size
    <3> QED
      BY <2>2, <3>1, <3>2, PartsApart
  <2> QED
    BY <2>6, <2>7
<1>2. LettersAreShared
  BY <1>1 DEF LettersAreShared
<1> QED
  BY <1>2, PTL

-----------------------------------------------------------------------------
(* The crashes.  What a worker keeps of the users it is told, as long as   *)
(* nobody takes them back: it has counted what is in its list, or told of  *)
(* more users than there are.  And it obeys no start for a user behind the *)
(* last (InTurn).                                                          *)
Listed(me) ==
  /\ IsStream(me.nodes) /\ me.elements \in Nat /\ me.u \in Nat
  /\ \/ Len(me.nodes) > UserCount
     \/ me.u = Len(me.nodes) /\ (me.u <= me.elements \/ UserCount <= me.elements)

Lost(me) ==
  me.client_count = 0 \/ me.elements < UserCount \/ me.nodes # [n \in 1 .. UserCount |-> n - 1]

Harmless(in) == \A i \in 1 .. Len(in) : in[i].kind \notin {"flush", "bare"}

Informing(me, in) == Listed(me) /\ Harmless(in) /\ (me.mode = "crashed" => Lost(me))

CrashInv == ~astray => \A w \in Workers : Informing(worker[w], toWorker[w])

LEMMA AllUsersLen == Len([n \in 1 .. UserCount |-> n - 1]) = UserCount
<1> DEFINE f == [n \in 1 .. UserCount |-> n - 1]
<1>1. f \in [1 .. UserCount -> Int] /\ UserCount \in Nat /\ DOMAIN f = 1 .. UserCount
  BY CountsAreNumbers
<1> HIDE DEF f
<1>2. f \in Seq(Int)
  BY <1>1, SeqDef
<1>3. DOMAIN f = 1 .. Len(f) /\ Len(f) \in Nat
  BY <1>2, LenProperties
<1>4. Len(f) = UserCount
  BY <1>1, <1>3
<1> QED
  BY <1>4 DEF f

LEMMA InsertLen ==
  ASSUME NEW s, IsStream(s), NEW u \in Nat, u <= Len(s), NEW e
  PROVE  IsStream(InsertAt(s, u + 1, e)) /\ Len(InsertAt(s, u + 1, e)) = Len(s) + 1
<1> PICK S : s \in Seq(S)
  BY DEF IsStream
<1> DEFINE T == S \cup {e}
           a == SubSeq(s, 1, u)
           b == SubSeq(s, u + 1, Len(s))
<1>1. s \in Seq(T) /\ Len(s) \in Nat
  BY SeqMonotonic, LenProperties
<1>2. a \in Seq(T) /\ Len(a) = u
  BY <1>1, SubSeqProperties
<1>3. b \in Seq(T) /\ Len(b) = Len(s) - u
  BY <1>1, SubSeqProperties
<1>4. <<e>> \in Seq(T) /\ Len(<<e>>) = 1
  OBVIOUS
<1>5. InsertAt(s, u + 1, e) = (a \o <<e>>) \o b
  <2>1. (u + 1) - 1 = u
    OBVIOUS
  <2> QED
    BY <2>1, Zenon DEF InsertAt
<1> HIDE DEF a, b, T
<1>6. a \o <<e>> \in Seq(T) /\ Len(a \o <<e>>) = u + 1
  BY <1>2, <1>4, ConcatProperties
<1> DEFINE c == a \o <<e>>
<1> HIDE DEF c
<1>7. c \o b \in Seq(T) /\ Len(c \o b) = Len(c) + Len(b)
  BY <1>3, <1>6, ConcatProperties DEF c
<1>8. Len(c \o b) = Len(s) + 1
  <2>1. Len(c) = u + 1 /\ Len(c \o b) = Len(c) + Len(b)
    BY <1>6, <1>7 DEF c
  <2> QED
    BY <1>1, <1>3, <2>1, SMTT(40)
<1>9. InsertAt(s, u + 1, e) = c \o b
  BY <1>5 DEF c
<1>10. IsStream(c \o b)
  BY <1>7, Zenon DEF IsStream
<1> QED
  BY <1>8, <1>9, <1>10, Zenon

LEMMA HarmlessAppend ==
  ASSUME NEW in, IsStream(in), Harmless(in),
         NEW m, m.kind \notin {"flush", "bare"}
  PROVE  Harmless(Append(in, m))
<1> DEFINE r == Append(in, m)
<1>1. /\ Len(in) \in Nat /\ Len(r) = Len(in) + 1 /\ r[Len(in) + 1] = m
      /\ \A i \in 1 .. Len(in) : r[i] = in[i]
  BY StreamAppend
<1> HIDE DEF r
<1>2. ASSUME NEW i \in 1 .. Len(r)
      PROVE  r[i].kind \notin {"flush", "bare"}
  <2>1. CASE i \in 1 .. Len(in)
    BY <1>1, <2>1 DEF Harmless
  <2>2. CASE i = Len(in) + 1
    BY <1>1, <2>2
  <2> QED
    BY <1>1, <2>1, <2>2
<1> QED
  BY <1>2 DEF Harmless, r

LEMMA HarmlessLonger ==
  ASSUME NEW in, Harmless(in), NEW n \in Nat, NEW f, NEW r, Len(in) \in Nat, Lengthened(in, n, f, r),
         \A i \in 1 .. n : f[i].kind = "user"
  PROVE  Harmless(r)
<1>1. ASSUME NEW i \in 1 .. Len(r)
      PROVE  r[i].kind \notin {"flush", "bare"}
  <2>1. CASE i \in 1 .. Len(in)
    BY <2>1 DEF Harmless, Lengthened
  <2>2. CASE i \in Len(in) + 1 .. Len(in) + n
    <3>1. i - Len(in) \in 1 .. n /\ r[i] = f[i - Len(in)]
      BY <2>2 DEF Lengthened
    <3> QED
      BY <3>1
  <2> QED
    BY <2>1, <2>2 DEF Lengthened
<1> QED
  BY <1>1 DEF Harmless

LEMMA HarmlessRead ==
  ASSUME NEW in, Harmless(in), Len(in) \in Nat, NEW r, NEW d, Remains(in, r, d)
  PROVE  Harmless(r)
<1>1. ASSUME NEW i \in 1 .. Len(r)
      PROVE  r[i].kind \notin {"flush", "bare"}
  <2>1. d \in 0 .. Len(in) /\ Len(r) = Len(in) - d /\ (r[i] = in[i + d] \/ r[i].kind \in Cuts)
    BY DEF Remains
  <2>2. i + d \in 1 .. Len(in)
    BY <2>1
  <2> QED
    BY <2>1, <2>2 DEF Harmless, Cuts
<1> QED
  BY <1>1 DEF Harmless

LEMMA InformingFresh ==
  ASSUME NEW me, me.nodes = << >>, me.elements = 0, me.u = 0, me.mode # "crashed",
         NEW in, Harmless(in)
  PROVE  Informing(me, in)
BY EmptyStream DEF Informing, Listed

(* A start that makes a worker crash. *)
LEMMA CrashAtStart ==
  ASSUME NEW me, Listed(me), me.index \in Nat, me.index < UserCount,
         NoElement(me) \/ me.client_count = 0
  PROVE  Lost(me)
<1>1. CASE me.client_count = 0
  BY <1>1 DEF Lost
<1>2. CASE me.index >= me.elements
  BY <1>2, CountsAreNumbers DEF Lost, Listed
<1>3. CASE me.index >= Len(me.nodes)
  <2>1. Len(me.nodes) # UserCount
    BY <1>3, CountsAreNumbers
  <2> QED
    BY <2>1, AllUsersLen DEF Lost
<1> QED
  BY <1>1, <1>2, <1>3 DEF NoElement

LEMMA CrashRead ==
  ASSUME SharingInv, BufferInv, NEW w \in Workers, WorkerRead(w), ~astray', NEW k \in Nat,
         Follows(k, worker[w], toWorker[w], toServer[w], server.at),
         Informing(worker[w], toWorker[w])
  PROVE  Informing(worker'[w], toWorker'[w])
<1> DEFINE in == toWorker[w]
           me == worker[w]
           new == worker'[w]
           seen == ReadBy(w)
           obeyed == Obeyed(Kinds(seen))
           r == Without(in, 256)
<1>1. /\ DOMAIN worker = Workers /\ DOMAIN toWorker = Workers
      /\ DOMAIN me = WorkerFields /\ me.index \in Nat /\ IsStream(in) /\ Len(in) \in Nat
  BY StreamLen DEF SharingInv, Sound
<1>2. me.mode = "idle" /\ toWorker'[w] = r
  BY <1>1, ReadOutcome
<1>a. IsStream(in) /\ 256 \in Nat
  BY <1>1
<1>0. PICK d \in 0 .. Len(in) : ReadTo(in, 256, r, d)
  BY <1>a, ReadFromStream, Zenon
<1>3. Remains(in, r, d) /\ \A m \in Seen(in, 256) : \E n \in 1 .. Len(in) : m = in[n]
  BY <1>0 DEF ReadTo
<1>4. Listed(me) /\ Harmless(in) /\ Harmless(r)
  BY <1>1, <1>3, HarmlessRead DEF Informing
<1>5. UNCHANGED worker \/ \A command : command # "none" /\ obeyed = command
                                   => command \in Kinds(Seen(in, 256))
  BY NotMisled, ObeyedIsThere
<1>6. "flush" \notin Kinds(Seen(in, 256)) /\ "bare" \notin Kinds(Seen(in, 256))
  BY <1>3, <1>4 DEF Harmless, Kinds
<1>7. CASE UNCHANGED worker
  BY <1>2, <1>4, <1>7 DEF Informing
<1>8. CASE /\ "send" \in Kinds(seen)
           /\ LET info == (CHOOSE m \in seen : m.kind = "send").arg
              IN worker' = [worker EXCEPT ![w].socket_id = info[1], ![w].num_thread = info[2],
                                          ![w].client_count = info[3], ![w].elements = info[4]]
  <2> DEFINE info == (CHOOSE m \in seen : m.kind = "send").arg
  <2>1. info[4] = UserCount
    BY <1>8, ReadTold DEF Told
  <2>2. new.elements = UserCount /\ new.nodes = me.nodes /\ new.u = me.u /\ new.mode = me.mode
    BY <1>1, <1>8, <2>1 DEF WorkerFields
  <2> HIDE DEF new, me, info
  <2> QED
    BY <1>2, <1>4, <2>2, CountsAreNumbers DEF Informing, Listed, new
<1>9. CASE me.u > me.elements /\ worker' = [worker EXCEPT ![w].u = @ + 1]
  <2>1. /\ new.elements = me.elements /\ new.nodes = me.nodes /\ new.u = me.u + 1
        /\ new.mode = me.mode
    BY <1>1, <1>9 DEF WorkerFields
  <2>2. Len(me.nodes) > UserCount
    BY <1>4, <1>9, CountsAreNumbers DEF Listed
  <2> HIDE DEF new, me
  <2> QED
    BY <1>2, <1>4, <2>1, <2>2 DEF Informing, Listed, new
<1>10. CASE me.u > Len(me.nodes) /\ worker' = [worker EXCEPT ![w].mode = "crashed"]
  <2>1. /\ new.elements = me.elements /\ new.nodes = me.nodes /\ new.u = me.u
        /\ new.client_count = me.client_count
    BY <1>1, <1>10 DEF WorkerFields
  <2>2. Len(me.nodes) > UserCount /\ Len(me.nodes) \in Nat
    BY <1>4, <1>10, StreamLen DEF Listed
  <2>3. Lost(new)
    <3>1. Len(me.nodes) # UserCount
      BY <2>2, CountsAreNumbers
    <3> QED
      BY <2>1, <3>1, AllUsersLen DEF Lost
  <2> HIDE DEF new, me
  <2> QED
    BY <1>2, <1>4, <2>1, <2>3 DEF Informing, Listed, new
<1>11. CASE /\ me.u <= Len(me.nodes)
            /\ \E user : worker' = [worker EXCEPT ![w].u = @ + 1, ![w].elements = @ + 1,
                                                  ![w].nodes = InsertAt(@, me.u + 1, user)]
  <2>1. PICK user : worker' = [worker EXCEPT ![w].u = @ + 1, ![w].elements = @ + 1,
                                             ![w].nodes = InsertAt(@, me.u + 1, user)]
    BY <1>11
  <2>2. /\ new.elements = me.elements + 1 /\ new.nodes = InsertAt(me.nodes, me.u + 1, user)
        /\ new.u = me.u + 1 /\ new.mode = me.mode
    BY <1>1, <2>1 DEF WorkerFields
  <2> HIDE DEF new, me
  <2>3. IsStream(me.nodes) /\ me.u \in Nat /\ me.elements \in Nat /\ Len(me.nodes) \in Nat
    BY <1>4, StreamLen DEF Listed
  <2>4. IsStream(new.nodes) /\ Len(new.nodes) = Len(me.nodes) + 1
    BY <1>11, <2>2, <2>3, InsertLen
  <2>5. \/ Len(new.nodes) > UserCount
        \/ new.u = Len(new.nodes) /\ (new.u <= new.elements \/ UserCount <= new.elements)
    <3>1. CASE Len(me.nodes) > UserCount
      BY <2>3, <2>4, <3>1, CountsAreNumbers
    <3>2. CASE me.u = Len(me.nodes) /\ (me.u <= me.elements \/ UserCount <= me.elements)
      BY <2>2, <2>3, <2>4, <3>2, CountsAreNumbers
    <3> QED
      BY <1>4, <3>1, <3>2 DEF Listed
  <2>6. Listed(new)
    BY <2>2, <2>3, <2>4, <2>5 DEF Listed
  <2>7. Informing(new, r)
    BY <1>2, <1>4, <2>2, <2>6 DEF Informing
  <2> QED
    BY <1>2, <2>7 DEF new
<1>12. CASE /\ "start" \in Kinds(Seen(in, 256))
            /\ NoElement(me) \/ me.client_count = 0
            /\ worker' = [worker EXCEPT ![w].mode = "crashed"]
  <2>1. /\ new.elements = me.elements /\ new.nodes = me.nodes /\ new.u = me.u
        /\ new.client_count = me.client_count
    BY <1>1, <1>12 DEF WorkerFields
  <2>2. PICK p \in 1 .. Len(in) : in[p].kind = "start"
    BY <1>3, <1>12 DEF Kinds
  <2>3. PICK l \in [1 .. Len(in) -> 0 .. k] : InTurn(k, me, in, server.at, l)
    BY <1>2 DEF Follows
  <2>4. me.index <= l[p] /\ l[p] < UserCount /\ l[p] \in 0 .. k
    <3> HIDE DEF me, in
    <3>1. Turn(me) <= l[p] /\ l[p] < UserCount /\ l[p] \in 0 .. k
      BY <2>2, <2>3 DEF InTurn
    <3>2. Turn(me) = me.index
      BY <1>1, <1>2 DEF Turn
    <3> QED
      BY <3>1, <3>2
  <2>5. me.index < UserCount
    BY <1>1, <2>4, CountsAreNumbers
  <2>6. Lost(me)
    BY <1>1, <1>4, <1>12, <2>5, CrashAtStart
  <2> HIDE DEF new, me
  <2> QED
    BY <1>2, <1>4, <2>1, <2>6 DEF Informing, Listed, Lost, new
<1>13. CASE worker' = [worker EXCEPT ![w].mode = "searching", ![w].found = FALSE,
                                     ![w].has = FALSE, ![w].listeners = @ + 1]
  <2>1. /\ new.elements = me.elements /\ new.nodes = me.nodes /\ new.u = me.u
        /\ new.mode = "searching"
    BY <1>1, <1>13 DEF WorkerFields
  <2> HIDE DEF new, me
  <2> QED
    BY <1>2, <1>4, <2>1 DEF Informing, Listed, new
<1>14. me.u \in Nat /\ me.elements \in Nat /\ Len(me.nodes) \in Nat
  BY <1>4, StreamLen DEF Listed
<1>15. CASE \E user : worker' = CASE me.u > me.elements   -> [worker EXCEPT ![w].u = @ + 1]
                                 [] me.u <= me.elements /\ me.u > Len(me.nodes) -> [worker EXCEPT ![w].mode = "crashed"]
                                 [] OTHER -> [worker EXCEPT ![w].u = @ + 1, ![w].elements = @ + 1,
                                                            ![w].nodes = InsertAt(@, me.u + 1, user)]
  <2>1. CASE me.u > me.elements
    <3>1. ~(me.u <= me.elements)
      BY <1>14, <2>1
    <3> QED
      BY <1>9, <1>15, <2>1, <3>1
  <2>2. CASE me.u <= me.elements /\ me.u > Len(me.nodes)
    <3>1. ~(me.u > me.elements)
      BY <1>14, <2>2
    <3> QED
      BY <1>10, <1>15, <2>2, <3>1
  <2>3. CASE ~(me.u > me.elements) /\ ~(me.u <= me.elements /\ me.u > Len(me.nodes))
    <3>1. me.u <= Len(me.nodes)
      BY <1>14, <2>3
    <3> QED
      BY <1>11, <1>15, <2>3, <3>1
  <2> QED
    BY <2>1, <2>2, <2>3
<1>16. \/ UNCHANGED worker
       \/ obeyed \in {"bare", "flush"}
       \/ /\ obeyed = "send"
          /\ LET info == (CHOOSE m \in seen : m.kind = "send").arg
             IN worker' = [worker EXCEPT ![w].socket_id = info[1], ![w].num_thread = info[2],
                                         ![w].client_count = info[3], ![w].elements = info[4]]
       \/ \E user : worker' = CASE me.u > me.elements   -> [worker EXCEPT ![w].u = @ + 1]
                                [] me.u <= me.elements /\ me.u > Len(me.nodes) -> [worker EXCEPT ![w].mode = "crashed"]
                                [] OTHER -> [worker EXCEPT ![w].u = @ + 1, ![w].elements = @ + 1,
                                                           ![w].nodes = InsertAt(@, me.u + 1, user)]
       \/ /\ obeyed = "start" /\ (NoElement(me) \/ me.client_count = 0)
          /\ worker' = [worker EXCEPT ![w].mode = "crashed"]
       \/ worker' = [worker EXCEPT ![w].mode = "searching", ![w].found = FALSE,
                                   ![w].has = FALSE, ![w].listeners = @ + 1]
  BY Zenon DEF WorkerRead, Join, ReadBy
<1>17. obeyed = "send" => "send" \in Kinds(seen)
  BY ObeyedIsThere
<1> HIDE DEF obeyed, seen, me, in, new, r
<1> QED
  BY <1>5, <1>6, <1>7, <1>8, <1>12, <1>13, <1>15, <1>16, <1>17, Zenon

LEMMA CrashWorker ==
  ASSUME SharingInv, BufferInv, NEW w \in Workers, WorkerStep(w), ~astray', NEW k \in Nat,
         Follows(k, worker[w], toWorker[w], toServer[w], server.at),
         Informing(worker[w], toWorker[w])
  PROVE  Informing(worker'[w], toWorker'[w])
<1> DEFINE in == toWorker[w]
           me == worker[w]
           new == worker'[w]
<1>1. /\ DOMAIN worker = Workers /\ DOMAIN toWorker = Workers
      /\ DOMAIN me = WorkerFields /\ IsStream(in) /\ Len(in) \in Nat
  BY StreamLen DEF SharingInv, Sound
<1>2. CASE ~WorkerRead(w)
  <2>1. /\ new.elements = me.elements /\ new.nodes = me.nodes /\ new.u = me.u
        /\ new.mode \in {"idle", "searching", "gone"}
    <3>1. CASE Listen(w)
      BY <1>1, <3>1 DEF Listen, WorkerFields
    <3>2. CASE Discover(w) \/ SeeAnswer(w) \/ EndSearch(w)
      BY <1>1, <3>2 DEF Discover, SeeAnswer, EndSearch, WorkerFields
    <3>3. CASE Report(w) \/ TypeExit(w)
      BY <1>1, <3>3 DEF Report, TypeExit, WorkerFields
    <3> QED
      BY <1>2, <3>1, <3>2, <3>3 DEF WorkerStep
  <2>2. Harmless(toWorker'[w])
    <3>1. CASE Listen(w)
      <4>1. toWorker'[w] = Without(in, 40)
        BY <1>1, <3>1 DEF Listen
      <4>2. PICK d \in 0 .. Len(in) : Remains(in, Without(in, 40), d)
        BY <1>1, ReadFromStream DEF ReadTo
      <4> QED
        BY <1>1, <4>1, <4>2, HarmlessRead DEF Informing
    <3>2. CASE ~Listen(w)
      <4>1. toWorker'[w] = in
        BY <1>2, <3>2 DEF WorkerStep, Discover, SeeAnswer, EndSearch, Report, TypeExit
      <4> QED
        BY <4>1 DEF Informing
    <3> QED
      BY <3>1, <3>2
  <2>3. Listed(me)
    BY DEF Informing
  <2> HIDE DEF new, me
  <2> QED
    BY <2>1, <2>2, <2>3 DEF Informing, Listed, new
<1> QED
  BY <1>2, CrashRead

LEMMA CrashInit == WorkInit => CrashInv
<1> SUFFICES ASSUME WorkInit, NEW w \in Workers  PROVE Informing(worker[w], toWorker[w])
  BY DEF CrashInv
<1>1. worker[w] = NewWorker /\ toWorker[w] = << >>
  BY DEF WorkInit
<1>2. /\ NewWorker.nodes = << >> /\ NewWorker.elements = 0 /\ NewWorker.u = 0
      /\ NewWorker.mode # "crashed"
  BY DEF NewWorker
<1>3. Harmless(<< >>)
  BY EmptyStream DEF Harmless
<1> QED
  BY <1>1, <1>2, <1>3, InformingFresh

(* What the server writes takes nothing back. *)
LEMMA CrashMenu ==
  ASSUME SharingInv, UNCHANGED worker, \A w \in Workers : Informing(worker[w], toWorker[w]),
         \/ SendSocketInfo \/ SendUserInfo \/ StartSearch \/ StartNext
         \/ Relay("text") \/ Relay("display") \/ \E v \in Workers : HandleFound(v)
  PROVE  \A w \in Workers : Informing(worker'[w], toWorker'[w])
<1>1. SUFFICES ASSUME NEW w \in Workers  PROVE Harmless(toWorker'[w])
  BY DEF Informing
<1>2. Harmless(toWorker[w]) /\ IsStream(toWorker[w]) /\ Len(toWorker[w]) \in Nat
  BY StreamLen DEF Informing, SharingInv, Sound
<1>3. CASE SendSocketInfo
  <2>1. CASE Reached(w)
    <3> DEFINE m == [Frame("send") EXCEPT
                       !.arg = <<worker[w].fd, server.num_thread, server.client_count, UserCount>>]
    <3>1. toWorker'[w] = Append(toWorker[w], m)
      BY <1>3, <2>1 DEF SendSocketInfo
    <3>2. m.kind = "send"
      BY DEF Frame
    <3> HIDE DEF m
    <3> QED
      BY <1>2, <3>1, <3>2, HarmlessAppend
  <2>2. CASE ~Reached(w)
    BY <1>2, <1>3, <2>2 DEF SendSocketInfo
  <2> QED
    BY <2>1, <2>2
<1>4. CASE SendUserInfo
  <2>1. CASE Reached(w)
    <3> DEFINE f == [u \in 1 .. UserCount |-> [Frame("user") EXCEPT !.arg = u - 1]]
               U == {f[u] : u \in 1 .. UserCount}
               r == toWorker[w] \o f
    <3>1. toWorker'[w] = r
      BY <1>4, <2>1 DEF SendUserInfo
    <3>2. f \in [1 .. UserCount -> U] /\ \A i \in 1 .. UserCount : f[i].kind = "user"
      BY DEF Frame
    <3>3. UserCount \in Nat
      BY CountsAreNumbers
    <3> HIDE DEF f, U
    <3>4. Lengthened(toWorker[w], UserCount, f, r)
      BY <1>2, <3>2, <3>3, StreamConcat
    <3> HIDE DEF r
    <3> QED
      BY <1>2, <3>1, <3>2, <3>3, <3>4, HarmlessLonger
  <2>2. CASE ~Reached(w)
    BY <1>2, <1>4, <2>2 DEF SendUserInfo
  <2> QED
    BY <2>1, <2>2
<1>5. CASE \/ StartSearch \/ StartNext \/ Relay("text") \/ Relay("display")
           \/ \E v \in Workers : HandleFound(v)
  <2>1. PICK m : /\ m.kind \notin {"flush", "bare"}
                 /\ toWorker' = toWorker \/ toWorker' = Sent(m)
    <3>1. /\ Short("start").kind = "start"
          /\ \A kind : Frame(kind).kind = kind
      BY DEF Short, Frame
    <3>2. \/ toWorker' = toWorker \/ toWorker' = Sent(Short("start"))
          \/ \E kind \in {"start", "text", "display", "found"} : toWorker' = Sent(Frame(kind))
      BY <1>5 DEF StartSearch, StartNext, HandleFound, Relay
    <3> QED
      BY <3>1, <3>2
  <2>2. toWorker'[w] = toWorker[w] \/ toWorker'[w] = Append(toWorker[w], m)
    BY <2>1 DEF Sent
  <2> QED
    BY <1>2, <2>1, <2>2, HarmlessAppend
<1> QED
  BY <1>3, <1>4, <1>5

LEMMA CrashNext == SharingInv /\ BufferInv /\ OrderInv /\ CrashInv /\ [WorkNext]_workVars => CrashInv'
<1> SUFFICES ASSUME SharingInv, BufferInv, OrderInv, CrashInv, [WorkNext]_workVars, ~astray'
             PROVE  \A w \in Workers : Informing(worker'[w], toWorker'[w])
  BY DEF CrashInv
<1>1. DOMAIN worker = Workers /\ DOMAIN toWorker = Workers
  BY DEF SharingInv
<1>2. CASE UNCHANGED workVars
  BY <1>2 DEF workVars, CrashInv
<1>3. CASE WorkNext
  <2>1. /\ ~FlushUserInfo
        /\ \A kind \in {"text", "bare", "start", "flush", "found", "display"} :
             Relay(kind) => kind \in {"text", "display"}
    BY <1>3, AstrayStays
  <2>2. PICK k \in Nat : OrderAt(k)
    BY <1>3, AstrayStays DEF OrderInv
  <2>3. \A v \in Workers : Informing(worker[v], toWorker[v])
    BY <1>3, AstrayStays DEF CrashInv
  <2>4. ASSUME NEW w \in Workers, WorkerStep(w)
        PROVE  \A v \in Workers : Informing(worker'[v], toWorker'[v])
    <3>1. Alone(w)
      BY <2>4, OthersUntouched
    <3>2. Informing(worker'[w], toWorker'[w])
      BY <2>2, <2>3, <2>4, CrashWorker DEF OrderAt
    <3> QED
      BY <2>3, <3>1, <3>2 DEF Alone
  <2>5. ASSUME NEW w \in Workers, Accept(w) \/ HandleExit(w)
        PROVE  \A v \in Workers : Informing(worker'[v], toWorker'[v])
    <3>1. toWorker'[w] = toWorker[w] \/ toWorker'[w] = << >>
      BY <1>1, <2>5 DEF Accept, HandleExit
    <3>2. Harmless(toWorker'[w])
      BY <2>3, <3>1, EmptyStream DEF Harmless, Informing
    <3>3. \/ worker'[w] = worker[w]
          \/ /\ worker'[w].nodes = << >> /\ worker'[w].elements = 0 /\ worker'[w].u = 0
             /\ worker'[w].mode # "crashed"
      <4>1. CASE Accept(w)
        <5>1. worker'[w] = [NewWorker EXCEPT !.mode = "idle", !.fd = LowestFd]
          BY <1>1, <4>1 DEF Accept
        <5> QED
          BY <5>1 DEF NewWorker
      <4>2. CASE HandleExit(w)
        <5>1. worker'[w] = worker[w] \/ worker'[w] = [NewWorker EXCEPT !.mode = "off"]
          BY <1>1, <4>2 DEF HandleExit
        <5> QED
          BY <5>1 DEF NewWorker
      <4> QED
        BY <2>5, <4>1, <4>2
    <3>4. Informing(worker'[w], toWorker'[w])
      BY <2>3, <3>2, <3>3, InformingFresh DEF Informing
    <3>5. \A v \in Workers \ {w} : worker'[v] = worker[v] /\ toWorker'[v] = toWorker[v]
      BY <1>1, <2>5 DEF Accept, HandleExit
    <3> QED
      BY <2>3, <3>4, <3>5
  <2>6. CASE \/ SendSocketInfo \/ SendUserInfo \/ StartSearch \/ StartNext
             \/ Relay("text") \/ Relay("display") \/ \E v \in Workers : HandleFound(v)
    <3>1. UNCHANGED worker
      BY <2>6 DEF SendSocketInfo, SendUserInfo, StartSearch, StartNext, Relay, HandleFound
    <3> QED
      BY <2>3, <2>6, <3>1, CrashMenu
  <2>7. \/ \E w \in Workers : WorkerStep(w) \/ Accept(w) \/ HandleExit(w)
        \/ SendSocketInfo \/ SendUserInfo \/ StartSearch \/ StartNext
        \/ Relay("text") \/ Relay("display") \/ \E v \in Workers : HandleFound(v)
    BY <1>3, <2>1 DEF WorkNext
  <2> QED
    BY <2>4, <2>5, <2>6, <2>7
<1> QED
  BY <1>2, <1>3

(* No worker crashes that knows with how many others, and for which users, *)
(* it searches, until server or workers are led astray: however late it    *)
(* reads, and whoever is started behind the last.                          *)
THEOREM InformedNeverCrash == WorkSpec => []CrashesUninformed
<1>1. CrashInv => CrashesUninformed
  BY DEF CrashInv, CrashesUninformed, Informing, Lost, Uninformed
<1> QED
  BY <1>1, SharingInit, SharingNext, BufferInit, BufferNext, OrderInit, OrderNext, CrashInit, CrashNext, PTL DEF WorkSpec
=============================================================================
