--------------------------- MODULE TlsEchoProofs ---------------------------
(***************************************************************************)
(* Nothing of a connection is lost, doubled or made up, for any clients,   *)
(* files, buffers and uninitialised sizes.                                 *)
(***************************************************************************)
EXTENDS TlsEcho, SequenceTheorems, TLAPS

Answers == {Upper(n) : n \in Nat}
EchoPlaces == {"new", "queued", "connected", "sending", "reading", "done", "crashed"}
EndPlaces  == {"done", "crashed"}

(* What the server holds of a client's. *)
Held(c) == IF serving = c THEN answer ELSE << >>

(* The messages of a client in their order: those whose answers were       *)
(* printed (e), those whose answers are on the way (d), the one the server *)
(* holds (h), and those that are on the way to it (u); w were written.     *)
Numbered(w, u, d, e, h) ==
  /\ h = << >> => Len(e) + Len(d) + Len(u) = w
  /\ h # << >> => h = Upper(Len(e) + Len(d) + 1) /\ Len(e) + Len(d) + 1 + Len(u) = w
  /\ \A n \in 1 .. Len(d) : d[n] = Upper(Len(e) + n)
  /\ \A n \in 1 .. Len(u) : u[n] = w - Len(u) + n

(* A client at the place a writes only while it is served, t messages.     *)
Exchanged(a, served, t, w, u, d, e, h) ==
  /\ w \in Nat /\ u \in Seq(Nat) /\ d \in Seq(Answers) /\ e \in Seq(Answers)
  /\ Len(u) <= Room /\ Len(d) <= Room /\ w <= t
  /\ \A n \in 1 .. Len(e) : e[n] = Upper(n)
  /\ a \in {"new", "queued"} => ~served /\ h = << >>
  /\ a \in {"new", "queued", "connected"} => w = 0
  /\ a = "sending" => w < t
  /\ a \in {"connected", "sending", "reading"} => served
  /\ a \notin EndPlaces => Numbered(w, u, d, e, h)

Exchange(c) == Exchanged(at[c], serving = c, toSend[c], written[c], up[c], down[c], echoed[c], Held(c))

EchoTables ==
  /\ at \in [Clients -> EchoPlaces] /\ toSend \in [Clients -> Nat]
  /\ DOMAIN written = Clients /\ DOMAIN up = Clients /\ DOMAIN down = Clients /\ DOMAIN echoed = Clients

EchoServer ==
  /\ serving \in Clients \cup {NoClient} /\ (serving = NoClient => answer = << >>)
  /\ backlog \in Seq(Clients)
  /\ \A i \in 1 .. Len(backlog) : at[backlog[i]] = "queued"
  /\ \A i, j \in 1 .. Len(backlog) : backlog[i] = backlog[j] => i = j

EchoInv == EchoTables /\ EchoServer /\ \A c \in Clients : Exchange(c)

-----------------------------------------------------------------------------

(* An answer is something, and the answers to two messages differ. *)
LEMMA UpperDiffers == \A m, n : Upper(m) # << >> /\ (Upper(m) = Upper(n) => m = n)
BY DEF Upper

LEMMA AnswersAre == \A n \in Nat : Upper(n) \in Answers
BY DEF Answers

(* One message more on the way to the server is one more written. *)
LEMMA OneMore ==
  ASSUME NEW e \in Nat, NEW d \in Nat, NEW u \in Nat, NEW w \in Nat
  PROVE  /\ e + d + u = w => e + d + (u + 1) = w + 1
         /\ e + d + 1 + u = w => e + d + 1 + (u + 1) = w + 1
OBVIOUS

(* The order while the server holds nothing. *)
LEMMA NothingHeld ==
  ASSUME NEW w, NEW u, NEW d, NEW e, Numbered(w, u, d, e, << >>)
  PROVE  /\ Len(e) + Len(d) + Len(u) = w
         /\ \A n \in 1 .. Len(d) : d[n] = Upper(Len(e) + n)
         /\ \A n \in 1 .. Len(u) : u[n] = w - Len(u) + n
<1> DEFINE h == << >>
<1>1. Numbered(w, u, d, e, h) /\ h = << >>
  OBVIOUS
<1> HIDE DEF h
<1> QED
  BY <1>1 DEF Numbered

(* At first nothing was written. *)
LEMMA EchoInitInv == EchoInit => EchoInv
<1> SUFFICES ASSUME EchoInit PROVE EchoInv
  OBVIOUS
<1>1. EchoTables
  BY DEF EchoInit, EchoTables, EchoPlaces
<1>2. << >> \in Seq(Nat) /\ << >> \in Seq(Answers) /\ << >> \in Seq(Clients) /\ Len(<< >>) = 0
  BY EmptySeq
<1>3. EchoServer
  BY <1>2 DEF EchoInit, EchoServer
<1>4. ASSUME NEW c \in Clients PROVE Exchange(c)
  <2>1. /\ at[c] = "new" /\ toSend[c] = 0 /\ written[c] = 0
        /\ up[c] = << >> /\ down[c] = << >> /\ echoed[c] = << >> /\ Held(c) = << >>
    BY DEF EchoInit, Held
  <2>2. serving # c
    BY EchoAssumption DEF EchoInit
  <2>3. Numbered(0, << >>, << >>, << >>, << >>)
    BY <1>2 DEF Numbered
  <2>4. Room \in Nat
    BY EchoAssumption
  <2> QED
    BY <1>2, <2>1, <2>2, <2>3, <2>4 DEF Exchange, Exchanged
<1> QED
  BY <1>1, <1>3, <1>4 DEF EchoInv

(* A client's step leaves the others alone. *)
LEMMA OtherExchanges ==
  ASSUME EchoInv, NEW c \in Clients, UNCHANGED <<serving, answer>>,
         \A d \in Clients \ {c} :
           UNCHANGED <<at[d], toSend[d], written[d], up[d], down[d], echoed[d]>>,
         Exchange(c)'
  PROVE  (\A d \in Clients : Exchange(d))'
<1> SUFFICES ASSUME NEW d \in Clients PROVE Exchange(d)'
  OBVIOUS
<1>1. CASE d = c
  BY <1>1
<1>2. CASE d # c
  BY <1>2 DEF EchoInv, Exchange, Held
<1> QED
  BY <1>1, <1>2

(* A connection that is queued is queued once. *)
LEMMA ConnectEcho == ASSUME EchoInv, NEW c \in Clients, Connect(c) PROVE EchoInv'
<1>1. /\ EchoTables /\ EchoServer /\ Exchange(c) /\ at[c] = "new"
      /\ at' = [at EXCEPT ![c] = "queued"] /\ backlog' = Append(backlog, c)
      /\ UNCHANGED <<toSend, written, file_size, up, down, echoed, serving, answer>>
  BY DEF EchoInv, Connect
<1>2. EchoTables'
  BY <1>1 DEF EchoTables, EchoPlaces
<1>3. EchoServer'
  <2>1. /\ backlog' \in Seq(Clients) /\ Len(backlog') = Len(backlog) + 1 /\ Len(backlog) \in Nat
        /\ \A i \in 1 .. Len(backlog) : backlog'[i] = backlog[i]
        /\ backlog'[Len(backlog) + 1] = c
    BY <1>1, AppendProperties, LenProperties DEF EchoServer
  <2>2. \A i \in 1 .. Len(backlog) : backlog[i] \in Clients /\ at[backlog[i]] = "queued" /\ backlog[i] # c
    BY <1>1, ElementOfSeq DEF EchoServer
  <2>3. \A i \in 1 .. Len(backlog') : i \in 1 .. Len(backlog) \/ i = Len(backlog) + 1
    BY <2>1
  <2>4. \A i \in 1 .. Len(backlog') : at'[backlog'[i]] = "queued"
    BY <1>1, <2>1, <2>2, <2>3 DEF EchoTables
  <2>5. ASSUME NEW i \in 1 .. Len(backlog'), NEW j \in 1 .. Len(backlog'), backlog'[i] = backlog'[j]
        PROVE  i = j
    <3>1. CASE i \in 1 .. Len(backlog) /\ j \in 1 .. Len(backlog)
      BY <1>1, <2>1, <2>5, <3>1 DEF EchoServer
    <3>2. CASE i = Len(backlog) + 1 \/ j = Len(backlog) + 1
      BY <2>1, <2>2, <2>3, <2>5, <3>2
    <3> QED
      BY <2>3, <3>1, <3>2
  <2> QED
    BY <1>1, <2>1, <2>4, <2>5 DEF EchoServer
<1>4. Exchange(c)'
  <2>1. at'[c] = "queued"
    BY <1>1 DEF EchoTables
  <2>2. Held(c)' = Held(c)
    BY <1>1 DEF Held
  <2> QED
    BY <1>1, <2>1, <2>2 DEF Exchange, Exchanged, EndPlaces
<1> QED
  BY <1>1, <1>2, <1>3, <1>4, OtherExchanges DEF EchoInv, EchoTables

(* The steps of a client that is connected leave the queue alone. *)
LEMMA QueueStays ==
  ASSUME EchoInv, NEW c \in Clients, at[c] # "queued", UNCHANGED <<serving, answer, backlog>>,
         \E place : at' = [at EXCEPT ![c] = place]
  PROVE  EchoServer'
<1>1. \A i \in 1 .. Len(backlog) : backlog[i] \in Clients /\ backlog[i] # c
  BY ElementOfSeq DEF EchoInv, EchoServer
<1>2. \A i \in 1 .. Len(backlog) : at'[backlog[i]] = at[backlog[i]]
  BY <1>1 DEF EchoInv, EchoTables
<1> QED
  BY <1>2 DEF EchoInv, EchoServer

(* What was typed says how much there is to write; nothing is written yet. *)
LEMMA TypeLineEcho ==
  ASSUME EchoInv, NEW c \in Clients, NEW line \in Lines, NEW size \in Sizes, TypeLine(c, line, size)
  PROVE  EchoInv'
<1>1. /\ EchoTables /\ EchoServer /\ Exchange(c) /\ at[c] = "connected"
      /\ UNCHANGED <<written, up, down, echoed, serving, answer, backlog>>
  BY DEF EchoInv, TypeLine
<1>2. /\ Chunks[c] \in Nat \cup {-1} /\ line \in {"start", "other", "end"}
  BY EchoAssumption
<1>3. PICK place \in {"crashed", "reading", "sending"}, t \in Nat :
        /\ at' = [at EXCEPT ![c] = place] /\ toSend' = [toSend EXCEPT ![c] = t]
        /\ place = "sending" => 0 < t
  <2>1. CASE line = "start" /\ Chunks[c] = -1
    <3>1. at' = [at EXCEPT ![c] = "crashed"] /\ toSend' = [toSend EXCEPT ![c] = 0]
      BY <2>1 DEF TypeLine
    <3> QED
      BY <3>1
  <2>2. CASE line = "start" /\ Chunks[c] # -1
    <3>1. at' = [at EXCEPT ![c] = "sending"] /\ toSend' = [toSend EXCEPT ![c] = Chunks[c] + 1]
      BY <2>2 DEF TypeLine
    <3>2. Chunks[c] + 1 \in Nat /\ 0 < Chunks[c] + 1
      BY <1>2, <2>2
    <3> QED
      BY <3>1, <3>2
  <2>3. CASE line = "other"
    <3>1. at' = [at EXCEPT ![c] = "sending"] /\ toSend' = [toSend EXCEPT ![c] = 1]
      BY <2>3 DEF TypeLine
    <3>2. 1 \in Nat /\ 0 < 1
      OBVIOUS
    <3> QED
      BY <3>1, <3>2
  <2>4. CASE line = "end"
    <3>1. at' = [at EXCEPT ![c] = "reading"] /\ toSend' = [toSend EXCEPT ![c] = 0]
      BY <2>4 DEF TypeLine
    <3> QED
      BY <3>1
  <2> QED
    BY <1>2, <2>1, <2>2, <2>3, <2>4
<1>4. EchoTables'
  BY <1>1, <1>3 DEF EchoTables, EchoPlaces
<1>5. EchoServer'
  BY <1>1, <1>3, QueueStays
<1>6. Exchange(c)'
  <2>1. at'[c] = place /\ toSend'[c] = t /\ Held(c)' = Held(c)
    BY <1>1, <1>3 DEF EchoTables, Held
  <2>2. written[c] = 0
    BY <1>1 DEF Exchange, Exchanged
  <2> QED
    BY <1>1, <1>3, <2>1, <2>2 DEF Exchange, Exchanged, EndPlaces
<1> QED
  BY <1>1, <1>3, <1>4, <1>5, <1>6, OtherExchanges DEF EchoInv, EchoTables

(* A message is numbered behind those that were written. *)
LEMMA ClientWriteEcho == ASSUME EchoInv, NEW c \in Clients, ClientWrite(c) PROVE EchoInv'
<1> DEFINE w == written[c]
           u == up[c]
           d == down[c]
           e == echoed[c]
           h == Held(c)
<1>1. /\ EchoTables /\ EchoServer /\ Exchange(c) /\ at[c] = "sending" /\ Len(u) < Room
      /\ written' = [written EXCEPT ![c] = @ + 1] /\ up' = [up EXCEPT ![c] = Append(@, w + 1)]
      /\ UNCHANGED <<toSend, file_size, down, echoed, serving, answer, backlog>>
  BY DEF EchoInv, ClientWrite
<1>2. PICK place \in {"reading", "sending"} :
        at' = [at EXCEPT ![c] = place] /\ (place = "sending" => w + 1 # toSend[c])
  BY DEF ClientWrite
<1>3. EchoTables'
  BY <1>1, <1>2 DEF EchoTables, EchoPlaces
<1>4. EchoServer'
  BY <1>1, <1>2, QueueStays
<1>5. Exchange(c)'
  <2>1. /\ at'[c] = place /\ written'[c] = w + 1 /\ up'[c] = Append(u, w + 1) /\ toSend'[c] = toSend[c]
        /\ down'[c] = d /\ echoed'[c] = e /\ Held(c)' = h /\ (serving' = c) = (serving = c)
    BY <1>1, <1>2 DEF EchoTables, Held
  <2>2. /\ w \in Nat /\ u \in Seq(Nat) /\ d \in Seq(Answers) /\ e \in Seq(Answers)
        /\ Len(d) <= Room /\ w < toSend[c] /\ toSend[c] \in Nat /\ serving = c
        /\ \A n \in 1 .. Len(e) : e[n] = Upper(n)
        /\ Numbered(w, u, d, e, h)
    BY <1>1 DEF Exchange, Exchanged, EndPlaces, EchoTables
  <2> DEFINE v == Append(u, w + 1)
  <2>3. /\ v \in Seq(Nat) /\ Len(v) = Len(u) + 1 /\ v[Len(u) + 1] = w + 1
        /\ \A n \in 1 .. Len(u) : v[n] = u[n]
    BY <2>2, AppendProperties
  <2>4. Len(u) \in Nat /\ Len(d) \in Nat /\ Len(e) \in Nat /\ Room \in Nat
    BY <2>2, LenProperties, EchoAssumption
  <2> HIDE DEF v, u, d, e, h, w
  <2>5. Numbered(w + 1, v, d, e, h)
    <3> DEFINE x == w + 1
    <3>0. /\ w \in Nat /\ x \in Nat /\ x = w + 1 /\ Len(v) = Len(u) + 1 /\ v[Len(u) + 1] = x
          /\ \A n \in 1 .. Len(u) : v[n] = u[n] /\ u[n] = w - Len(u) + n
      BY <2>2, <2>3 DEF Numbered
    <3>1. ASSUME NEW n \in 1 .. Len(v) PROVE v[n] = x - Len(v) + n
      <4>1. CASE n \in 1 .. Len(u)
        <5>1. v[n] = w - Len(u) + n
          BY <3>0, <4>1
        <5> QED
          BY <2>4, <3>0, <5>1
      <4>2. CASE n = Len(u) + 1
        BY <2>4, <3>0, <4>2
      <4> QED
        BY <2>4, <3>0, <4>1, <4>2
    <3> HIDE DEF x
    <3>2. /\ h = << >> => Len(e) + Len(d) + Len(v) = x
          /\ h # << >> => h = Upper(Len(e) + Len(d) + 1) /\ Len(e) + Len(d) + 1 + Len(v) = x
          /\ \A n \in 1 .. Len(d) : d[n] = Upper(Len(e) + n)
      <4>1. /\ h = << >> => Len(e) + Len(d) + Len(u) = w
            /\ h # << >> => h = Upper(Len(e) + Len(d) + 1)
            /\ h # << >> => Len(e) + Len(d) + 1 + Len(u) = w
            /\ \A n \in 1 .. Len(d) : d[n] = Upper(Len(e) + n)
        BY <2>2, Zenon DEF Numbered
      <4>2. /\ Len(e) + Len(d) + Len(u) = w => Len(e) + Len(d) + Len(v) = x
            /\ Len(e) + Len(d) + 1 + Len(u) = w => Len(e) + Len(d) + 1 + Len(v) = x
        <5>1. Len(u) \in Nat /\ Len(d) \in Nat /\ Len(e) \in Nat /\ w \in Nat
          BY <2>4, <3>0
        <5>2. Len(v) = Len(u) + 1 /\ x = w + 1
          BY <3>0
        <5> HIDE DEF x
        <5>3. /\ Len(e) + Len(d) + Len(u) = w => Len(e) + Len(d) + (Len(u) + 1) = w + 1
              /\ Len(e) + Len(d) + 1 + Len(u) = w => Len(e) + Len(d) + 1 + (Len(u) + 1) = w + 1
          BY <5>1, OneMore
        <5> QED
          BY <5>2, <5>3, Zenon
      <4> QED
        BY <4>1, <4>2, Zenon
    <3>3. Numbered(x, v, d, e, h)
      BY <3>1, <3>2 DEF Numbered
    <3> QED
      BY <3>3 DEF x
  <2>6. w + 1 \in Nat /\ w + 1 <= toSend[c] /\ (place = "sending" => w + 1 < toSend[c]) /\ Len(v) <= Room
    BY <1>1, <1>2, <2>2, <2>3, <2>4
  <2>7. Exchanged(place, TRUE, toSend[c], w + 1, v, d, e, h)
    BY <1>2, <2>2, <2>3, <2>5, <2>6 DEF Exchanged
  <2> QED
    BY <2>1, <2>2, <2>7 DEF Exchange, v, u, w, d, e, h
<1> QED
  BY <1>1, <1>2, <1>3, <1>4, <1>5, OtherExchanges DEF EchoInv, EchoTables

(* The answer that is printed is the next one. *)
LEMMA ClientReadEcho == ASSUME EchoInv, NEW c \in Clients, ClientRead(c) PROVE EchoInv'
<1> DEFINE w == written[c]
           u == up[c]
           d == down[c]
           e == echoed[c]
           h == Held(c)
<1>1. /\ EchoTables /\ EchoServer /\ Exchange(c) /\ at[c] = "reading" /\ d # << >>
      /\ echoed' = [echoed EXCEPT ![c] = Append(@, Head(d))] /\ down' = [down EXCEPT ![c] = Tail(@)]
      /\ UNCHANGED <<toSend, written, file_size, up, serving, answer, backlog>>
  BY DEF EchoInv, ClientRead
<1>2. PICK place \in {"reading", "done"} : at' = [at EXCEPT ![c] = place]
  BY DEF ClientRead
<1>3. EchoTables'
  BY <1>1, <1>2 DEF EchoTables, EchoPlaces
<1>4. EchoServer'
  BY <1>1, <1>2, QueueStays
<1>5. Exchange(c)'
  <2>1. /\ at'[c] = place /\ written'[c] = w /\ up'[c] = u /\ toSend'[c] = toSend[c]
        /\ down'[c] = Tail(d) /\ echoed'[c] = Append(e, Head(d)) /\ Held(c)' = h /\ serving' = serving
    BY <1>1, <1>2 DEF EchoTables, Held
  <2>2. /\ w \in Nat /\ u \in Seq(Nat) /\ d \in Seq(Answers) /\ e \in Seq(Answers)
        /\ Len(u) <= Room /\ Len(d) <= Room /\ w <= toSend[c] /\ serving = c
        /\ \A n \in 1 .. Len(e) : e[n] = Upper(n)
        /\ Numbered(w, u, d, e, h)
    BY <1>1 DEF Exchange, Exchanged, EndPlaces, EchoTables
  <2> DEFINE dd == Tail(d)
             ee == Append(e, Head(d))
  <2>3. /\ dd \in Seq(Answers) /\ Len(dd) = Len(d) - 1 /\ Head(d) \in Answers
        /\ \A n \in 1 .. Len(dd) : dd[n] = d[n + 1]
    BY <1>1, <2>2, HeadTailProperties
  <2>4. /\ ee \in Seq(Answers) /\ Len(ee) = Len(e) + 1 /\ ee[Len(e) + 1] = Head(d)
        /\ \A n \in 1 .. Len(e) : ee[n] = e[n]
    BY <2>2, <2>3, AppendProperties
  <2>5. /\ Len(u) \in Nat /\ Len(d) \in Nat /\ Len(e) \in Nat /\ Room \in Nat /\ Len(dd) \in Nat
        /\ Head(d) = d[1]
    BY <1>1, <2>2, <2>3, LenProperties, EchoAssumption
  <2> HIDE DEF dd, ee, u, d, e, h, w
  <2>6. Head(d) = Upper(Len(e) + 1)
    BY <2>2, <2>3, <2>5 DEF Numbered
  <2>7. \A n \in 1 .. Len(ee) : ee[n] = Upper(n)
    <3> SUFFICES ASSUME NEW n \in 1 .. Len(ee) PROVE ee[n] = Upper(n)
      OBVIOUS
    <3>1. CASE n \in 1 .. Len(e)
      BY <2>2, <2>4, <3>1
    <3>2. CASE n = Len(e) + 1
      BY <2>4, <2>6, <3>2
    <3> QED
      BY <2>4, <2>5, <3>1, <3>2
  <2>8. Numbered(w, u, dd, ee, h)
    <3>1. \A n \in 1 .. Len(dd) : dd[n] = Upper(Len(ee) + n)
      <4> SUFFICES ASSUME NEW n \in 1 .. Len(dd) PROVE dd[n] = Upper(Len(ee) + n)
        OBVIOUS
      <4>1. n + 1 \in 1 .. Len(d) /\ Len(e) + (n + 1) = Len(ee) + n
        BY <2>3, <2>4, <2>5
      <4>2. d[n + 1] = Upper(Len(e) + (n + 1))
        BY <2>2, <4>1 DEF Numbered
      <4> QED
        BY <2>3, <4>1, <4>2
    <3>2. Len(ee) + Len(dd) = Len(e) + Len(d)
      BY <2>3, <2>4, <2>5
    <3> QED
      BY <2>2, <3>1, <3>2 DEF Numbered
  <2>9. Exchanged(place, TRUE, toSend[c], w, u, dd, ee, h)
    BY <1>2, <2>2, <2>3, <2>4, <2>5, <2>7, <2>8 DEF Exchanged
  <2> QED
    BY <2>1, <2>2, <2>9 DEF Exchange, dd, ee, u, w, d, e, h
<1> QED
  BY <1>1, <1>2, <1>3, <1>4, <1>5, OtherExchanges DEF EchoInv, EchoTables

(* The server's steps leave those it does not serve alone. *)
LEMMA ServedExchanges ==
  ASSUME EchoInv, NEW c \in Clients, serving = c, serving' = c,
         UNCHANGED <<at, toSend, written, echoed, backlog>>,
         DOMAIN up' = Clients, DOMAIN down' = Clients,
         \A d \in Clients \ {c} : UNCHANGED <<up[d], down[d]>>,
         Exchange(c)'
  PROVE  EchoInv'
<1>1. ASSUME NEW d \in Clients PROVE Exchange(d)'
  <2>1. CASE d = c
    BY <2>1
  <2>2. CASE d # c
    BY <2>2 DEF EchoInv, Exchange, Held
  <2> QED
    BY <2>1, <2>2
<1>2. EchoTables'
  BY DEF EchoInv, EchoTables
<1>3. EchoServer'
  BY EchoAssumption DEF EchoInv, EchoServer
<1> QED
  BY <1>1, <1>2, <1>3 DEF EchoInv

(* The first in the queue is served, and is not in the queue any more. *)
LEMMA AcceptEcho == ASSUME EchoInv, Accept PROVE EchoInv'
<1> DEFINE c == Head(backlog)
<1>1. /\ EchoTables /\ EchoServer /\ serving = NoClient /\ backlog # << >> /\ answer = << >>
      /\ serving' = c /\ backlog' = Tail(backlog) /\ at' = [at EXCEPT ![c] = "connected"]
      /\ UNCHANGED <<toSend, written, file_size, up, down, echoed, answer>>
  BY DEF EchoInv, EchoServer, Accept
<1>2. /\ c \in Clients /\ backlog' \in Seq(Clients) /\ Len(backlog') = Len(backlog) - 1
      /\ \A i \in 1 .. Len(backlog') : backlog'[i] = backlog[i + 1]
      /\ Len(backlog) \in Nat /\ Len(backlog') \in Nat /\ c = backlog[1]
  BY <1>1, HeadTailProperties, LenProperties DEF EchoServer
<1> HIDE DEF c
<1>3. at[c] = "queued"
  BY <1>1, <1>2 DEF EchoServer
<1>4. EchoTables'
  BY <1>1 DEF EchoTables, EchoPlaces
<1>5. EchoServer'
  <2>1. ASSUME NEW i \in 1 .. Len(backlog')
        PROVE  /\ backlog'[i] # c /\ at'[backlog'[i]] = "queued"
    <3>1. i + 1 \in 1 .. Len(backlog) /\ 1 \in 1 .. Len(backlog) /\ i + 1 # 1
      BY <1>2
    <3>2. backlog'[i] = backlog[i + 1] /\ backlog[i + 1] \in Clients
      BY <1>1, <1>2, <3>1, ElementOfSeq DEF EchoServer
    <3>3. backlog[i + 1] # c /\ at[backlog[i + 1]] = "queued"
      BY <1>1, <1>2, <3>1 DEF EchoServer
    <3> QED
      BY <1>1, <3>2, <3>3 DEF EchoTables
  <2>2. ASSUME NEW i \in 1 .. Len(backlog'), NEW j \in 1 .. Len(backlog'), backlog'[i] = backlog'[j]
        PROVE  i = j
    <3>1. i + 1 \in 1 .. Len(backlog) /\ j + 1 \in 1 .. Len(backlog) /\ backlog[i + 1] = backlog[j + 1]
      BY <1>2, <2>2
    <3>2. i + 1 = j + 1
      BY <1>1, <3>1 DEF EchoServer
    <3> QED
      BY <1>2, <3>2
  <2>3. serving' \in Clients /\ serving' # NoClient
    BY <1>1, <1>2, EchoAssumption
  <2> QED
    BY <1>2, <2>1, <2>2, <2>3 DEF EchoServer
<1>6. ASSUME NEW d \in Clients PROVE Exchange(d)'
  <2>1. Held(d) = << >> /\ Held(d)' = << >> /\ Exchange(d) /\ serving # d
    BY <1>1, EchoAssumption DEF EchoInv, Held
  <2>2. CASE d = c
    <3>1. at'[d] = "connected" /\ at[d] = "queued" /\ serving' = d
      BY <1>1, <1>2, <1>3, <2>2 DEF EchoTables
    <3> QED
      BY <1>1, <2>1, <3>1 DEF Exchange, Exchanged, EndPlaces
  <2>3. CASE d # c
    <3>1. at'[d] = at[d] /\ serving' # d
      BY <1>1, <2>3 DEF EchoTables
    <3> QED
      BY <1>1, <2>1, <3>1 DEF Exchange
  <2> QED
    BY <2>2, <2>3
<1> QED
  BY <1>4, <1>5, <1>6 DEF EchoInv

(* The server answers the message that comes next. *)
LEMMA ServerReadEcho == ASSUME EchoInv, ServerRead PROVE EchoInv'
<1> DEFINE c == serving
           w == written[c]
           u == up[c]
           d == down[c]
           e == echoed[c]
<1>1. /\ EchoTables /\ EchoServer /\ c # NoClient /\ answer = << >> /\ u # << >>
      /\ answer' = Upper(Head(u)) /\ up' = [up EXCEPT ![c] = Tail(@)]
      /\ UNCHANGED <<at, toSend, written, file_size, down, echoed, serving, backlog>>
  BY DEF EchoInv, ServerRead
<1>2. c \in Clients /\ Exchange(c)
  BY <1>1 DEF EchoInv, EchoServer
<1>3. Exchange(c)'
  <2>1. /\ up'[c] = Tail(u) /\ Held(c) = << >> /\ Held(c)' = answer'
    BY <1>1, <1>2 DEF EchoTables, Held
  <2>2. Exchanged(at[c], TRUE, toSend[c], w, u, d, e, << >>)
    BY <1>2, <2>1, Zenon DEF Exchange
  <2> DEFINE uu == Tail(u)
             h == answer'
  <2>3. /\ w \in Nat /\ u \in Seq(Nat) /\ d \in Seq(Answers) /\ e \in Seq(Answers)
        /\ Len(u) <= Room
        /\ at[c] \notin EndPlaces => Numbered(w, u, d, e, << >>)
    BY <2>2, Zenon DEF Exchanged
  <2>4. /\ uu \in Seq(Nat) /\ Len(uu) = Len(u) - 1 /\ Head(u) = u[1]
        /\ \A n \in 1 .. Len(uu) : uu[n] = u[n + 1]
    BY <1>1, <2>3, HeadTailProperties
  <2>5. /\ Len(u) \in Nat /\ Len(uu) \in Nat /\ Len(d) \in Nat /\ Len(e) \in Nat /\ Room \in Nat
    BY <2>3, <2>4, LenProperties, EchoAssumption
  <2>6. h = Upper(u[1]) /\ h # << >>
    BY <1>1, <2>4, UpperDiffers
  <2> HIDE DEF c, w, u, d, e, h, uu
  <2>7. ASSUME at[c] \notin EndPlaces PROVE Numbered(w, uu, d, e, h)
    <3>1. /\ Len(e) + Len(d) + Len(u) = w
          /\ \A n \in 1 .. Len(d) : d[n] = Upper(Len(e) + n)
          /\ \A n \in 1 .. Len(u) : u[n] = w - Len(u) + n
      <4>1. Numbered(w, u, d, e, << >>)
        BY <2>3, <2>7, Zenon
      <4> QED
        BY <4>1, NothingHeld
    <3>2. u[1] = Len(e) + Len(d) + 1 /\ Len(e) + Len(d) + 1 + Len(uu) = w
      <4>1. 1 \in 1 .. Len(u)
        BY <2>4, <2>5
      <4>2. u[1] = w - Len(u) + 1
        BY <3>1, <4>1
      <4>3. w \in Nat /\ Len(uu) = Len(u) - 1 /\ Len(e) + Len(d) + Len(u) = w
        BY <2>3, <2>4, <3>1, Zenon
      <4> DEFINE lu == Len(u)
                 luu == Len(uu)
                 ld == Len(d)
                 le == Len(e)
                 first == u[1]
      <4>4. lu \in Nat /\ luu \in Nat /\ ld \in Nat /\ le \in Nat /\ w \in Nat
        BY <2>5, <4>3, Zenon
      <4>5. first = w - lu + 1 /\ luu = lu - 1 /\ le + ld + lu = w
        BY <4>2, <4>3, Zenon
      <4> HIDE DEF lu, luu, ld, le, first
      <4>6. first = le + ld + 1 /\ le + ld + 1 + luu = w
        BY <4>4, <4>5
      <4> QED
        BY <4>6, Zenon DEF lu, luu, ld, le, first
    <3>3. \A n \in 1 .. Len(uu) : uu[n] = w - Len(uu) + n
      <4> SUFFICES ASSUME NEW n \in 1 .. Len(uu) PROVE uu[n] = w - Len(uu) + n
        OBVIOUS
      <4>1. n + 1 \in 1 .. Len(u) /\ w - Len(u) + (n + 1) = w - Len(uu) + n
        BY <2>3, <2>4, <2>5
      <4> QED
        BY <2>4, <3>1, <4>1
    <3> QED
      BY <2>6, <3>1, <3>2, <3>3, Zenon DEF Numbered
  <2>8. Len(uu) <= Room
    BY <2>3, <2>4, <2>5
  <2>9. at[c] \notin {"new", "queued"}
    BY <2>2 DEF Exchanged
  <2>10. Exchanged(at[c], TRUE, toSend[c], w, uu, d, e, h)
    BY <2>2, <2>4, <2>7, <2>8, <2>9, Zenon DEF Exchanged
  <2> QED
    BY <1>1, <2>1, <2>10, Zenon DEF Exchange, c, w, u, d, e, h, uu
<1> QED
  BY <1>1, <1>2, <1>3, ServedExchanges DEF EchoTables

(* The answer goes behind those that are on the way. *)
LEMMA ServerWriteEcho == ASSUME EchoInv, ServerWrite PROVE EchoInv'
<1> DEFINE c == serving
           w == written[c]
           u == up[c]
           d == down[c]
           e == echoed[c]
<1>1. /\ EchoTables /\ EchoServer /\ c # NoClient /\ answer # << >> /\ answer' = << >>
      /\ UNCHANGED <<at, toSend, written, file_size, up, echoed, serving, backlog>>
  BY DEF EchoInv, ServerWrite
<1>2. c \in Clients /\ Exchange(c) /\ Held(c) = answer /\ Held(c)' = << >>
  BY <1>1 DEF EchoInv, EchoServer, Held
<1>3. Exchanged(at[c], TRUE, toSend[c], w, u, d, e, answer)
  BY <1>2, Zenon DEF Exchange
<1>4. CASE at[c] \in EndPlaces
  <2>1. down' = down
    BY <1>4 DEF ServerWrite, Closed, EndPlaces
  <2>2. Exchanged(at[c], TRUE, toSend[c], w, u, d, e, << >>)
    BY <1>3, <1>4, Zenon DEF Exchanged
  <2>3. Exchange(c)'
    BY <1>1, <1>2, <2>1, <2>2, Zenon DEF Exchange
  <2> QED
    BY <1>1, <1>2, <2>1, <2>3, ServedExchanges DEF EchoTables
<1>5. CASE at[c] \notin EndPlaces
  <2>1. Len(d) < Room /\ down' = [down EXCEPT ![c] = Append(@, answer)]
    BY <1>5 DEF ServerWrite, Closed, EndPlaces
  <2>2. down'[c] = Append(d, answer)
    BY <1>1, <1>2, <2>1 DEF EchoTables
  <2>3. /\ w \in Nat /\ u \in Seq(Nat) /\ d \in Seq(Answers) /\ e \in Seq(Answers)
        /\ Numbered(w, u, d, e, answer)
    BY <1>3, <1>5, Zenon DEF Exchanged
  <2>4. /\ answer = Upper(Len(e) + Len(d) + 1) /\ Len(e) + Len(d) + 1 + Len(u) = w
        /\ \A n \in 1 .. Len(d) : d[n] = Upper(Len(e) + n)
        /\ \A n \in 1 .. Len(u) : u[n] = w - Len(u) + n
    BY <1>1, <2>3, Zenon DEF Numbered
  <2>5. Len(u) \in Nat /\ Len(d) \in Nat /\ Len(e) \in Nat /\ Room \in Nat
    BY <2>3, LenProperties, EchoAssumption
  <2> HIDE DEF c, w, u, d, e
  <2>6. answer \in Answers
    <3>1. Len(e) + Len(d) + 1 \in Nat
      BY <2>5
    <3> QED
      BY <2>4, <3>1, AnswersAre
  <2> DEFINE dd == Append(d, answer)
  <2>7. /\ dd \in Seq(Answers) /\ Len(dd) = Len(d) + 1 /\ dd[Len(d) + 1] = answer
        /\ \A n \in 1 .. Len(d) : dd[n] = d[n]
    BY <2>3, <2>6, AppendProperties
  <2> HIDE DEF dd
  <2>8. \A n \in 1 .. Len(dd) : dd[n] = Upper(Len(e) + n)
    <3> SUFFICES ASSUME NEW n \in 1 .. Len(dd) PROVE dd[n] = Upper(Len(e) + n)
      OBVIOUS
    <3>1. CASE n \in 1 .. Len(d)
      BY <2>4, <2>7, <3>1
    <3>2. CASE n = Len(d) + 1
      <4>1. Len(e) + Len(d) + 1 = Len(e) + n
        BY <2>5, <3>2
      <4> QED
        BY <2>4, <2>7, <3>2, <4>1
    <3> QED
      BY <2>5, <2>7, <3>1, <3>2
  <2>9. Len(e) + Len(dd) + Len(u) = w /\ Len(dd) <= Room
    BY <2>1, <2>4, <2>5, <2>7 DEF d
  <2>10. Numbered(w, u, dd, e, << >>)
    BY <2>4, <2>8, <2>9, Zenon DEF Numbered
  <2>11. Exchanged(at[c], TRUE, toSend[c], w, u, dd, e, << >>)
    BY <1>3, <2>7, <2>9, <2>10, Zenon DEF Exchanged
  <2>12. Exchange(c)'
    BY <1>1, <1>2, <2>2, <2>11, Zenon DEF Exchange, c, w, u, d, e, dd
  <2> QED
    BY <1>1, <1>2, <2>1, <2>12, ServedExchanges DEF EchoTables, c
<1> QED
  BY <1>4, <1>5

(* Only a client that has closed is left. *)
LEMMA ServerEndsEcho == ASSUME EchoInv, ServerEnds PROVE EchoInv'
<1>1. /\ EchoTables /\ EchoServer /\ answer = << >> /\ at[serving] \in EndPlaces /\ serving' = NoClient
      /\ UNCHANGED <<at, toSend, written, file_size, up, down, echoed, answer, backlog>>
  BY DEF EchoInv, ServerEnds, Closed, EndPlaces
<1>2. EchoTables' /\ EchoServer'
  BY <1>1 DEF EchoTables, EchoServer
<1>3. ASSUME NEW c \in Clients PROVE Exchange(c)'
  <2>1. Held(c) = << >> /\ Held(c)' = << >> /\ serving' # c
    BY <1>1, EchoAssumption DEF Held
  <2>2. Exchanged(at[c], serving = c, toSend[c], written[c], up[c], down[c], echoed[c], << >>)
    BY <2>1, Zenon DEF EchoInv, Exchange
  <2>3. serving = c => at[c] \notin {"new", "queued", "connected", "sending", "reading"}
    BY <1>1 DEF EndPlaces
  <2>4. Exchanged(at[c], FALSE, toSend[c], written[c], up[c], down[c], echoed[c], << >>)
    BY <2>2, <2>3, Zenon DEF Exchanged
  <2> QED
    BY <1>1, <2>1, <2>4, Zenon DEF Exchange
<1> QED
  BY <1>2, <1>3 DEF EchoInv

LEMMA EchoNextInv == EchoInv /\ [EchoNext]_echoVars => EchoInv'
<1> SUFFICES ASSUME EchoInv, [EchoNext]_echoVars PROVE EchoInv'
  OBVIOUS
<1>1. ASSUME NEW c \in Clients, ClientStep(c) PROVE EchoInv'
  BY <1>1, ConnectEcho, TypeLineEcho, ClientWriteEcho, ClientReadEcho DEF ClientStep
<1>2. CASE ServerStep
  BY <1>2, AcceptEcho, ServerReadEcho, ServerWriteEcho, ServerEndsEcho DEF ServerStep
<1>3. CASE UNCHANGED echoVars
  <2>1. UNCHANGED <<at, toSend, written, up, down, echoed, serving, answer, backlog>>
    BY <1>3 DEF echoVars
  <2>2. EchoTables' /\ EchoServer'
    BY <2>1 DEF EchoInv, EchoTables, EchoServer
  <2>3. ASSUME NEW c \in Clients PROVE Exchange(c)'
    BY <2>1 DEF EchoInv, Exchange, Held
  <2> QED
    BY <2>2, <2>3 DEF EchoInv
<1> QED
  BY <1>1, <1>2, <1>3 DEF EchoNext

LEMMA EchoInvariant == EchoSpec => []EchoInv
BY EchoInitInv, EchoNextInv, PTL DEF EchoSpec

(* The types, the bounds of the buffers, and that no client writes more    *)
(* messages than it has to send.                                           *)
THEOREM EchoTypes == EchoSpec => []EchoTypeOK
<1>1. ASSUME EchoInv PROVE EchoTypeOK
  <2>1. ASSUME NEW c \in Clients
        PROVE  Len(up[c]) <= Room /\ Len(down[c]) <= Room /\ written[c] <= toSend[c]
    BY <1>1, Zenon DEF EchoInv, Exchange, Exchanged
  <2>2. serving \in Clients \cup {NoClient} /\ (serving = NoClient => answer = << >>)
    BY <1>1, Zenon DEF EchoInv, EchoServer
  <2> QED
    BY <2>1, <2>2, Zenon DEF EchoTypeOK
<1> QED
  BY <1>1, EchoInvariant, PTL

(* The upper case of the first n messages. *)
LEMMA UpperOfIs ==
  ASSUME NEW n \in Nat
  PROVE  /\ UpperOf(1, n) \in Seq(Answers) /\ Len(UpperOf(1, n)) = n
         /\ \A i \in 1 .. n : UpperOf(1, n)[i] = Upper(i)
<1>1. n - 1 + 1 = n /\ \A i \in 1 .. n : 1 + i - 1 = i /\ i \in Nat
  OBVIOUS
<1>2. UpperOf(1, n) = [i \in 1 .. n |-> Upper(i)]
  BY <1>1 DEF UpperOf
<1>3. \A i \in 1 .. n : Upper(i) \in Answers
  BY <1>1, AnswersAre
<1> QED
  BY <1>2, <1>3

(* A sequence that has the upper case of message i in place i is the upper *)
(* case of the messages up to its length.                                  *)
LEMMA UpperInOrder ==
  ASSUME NEW s \in Seq(Answers), \A i \in 1 .. Len(s) : s[i] = Upper(i)
  PROVE  s = UpperOf(1, Len(s))
<1>1. Len(s) \in Nat
  BY LenProperties
<1> DEFINE t == UpperOf(1, Len(s))
<1>2. t \in Seq(Answers) /\ Len(t) = Len(s) /\ \A i \in 1 .. Len(s) : t[i] = Upper(i)
  BY <1>1, UpperOfIs
<1> HIDE DEF t
<1>3. s = t
  BY <1>2, SeqEqual
<1> QED
  BY <1>3 DEF t

(* The answers printed and those on the way are the upper case of the      *)
(* first messages.                                                         *)
LEMMA ShownAndComing ==
  ASSUME NEW e \in Seq(Answers), NEW d \in Seq(Answers),
         \A i \in 1 .. Len(e) : e[i] = Upper(i),
         \A n \in 1 .. Len(d) : d[n] = Upper(Len(e) + n)
  PROVE  /\ e \o d \in Seq(Answers) /\ Len(e \o d) = Len(e) + Len(d)
         /\ \A i \in 1 .. Len(e) + Len(d) : (e \o d)[i] = Upper(i)
<1>1. Len(e) \in Nat /\ Len(d) \in Nat
  BY LenProperties
<1>2. /\ e \o d \in Seq(Answers) /\ Len(e \o d) = Len(e) + Len(d)
      /\ \A i \in 1 .. Len(e) + Len(d) :
           (e \o d)[i] = IF i <= Len(e) THEN e[i] ELSE d[i - Len(e)]
  BY ConcatProperties
<1>3. ASSUME NEW i \in 1 .. Len(e) + Len(d) PROVE (e \o d)[i] = Upper(i)
  <2>1. CASE i <= Len(e)
    BY <1>1, <1>2, <2>1
  <2>2. CASE ~(i <= Len(e))
    <3>1. i - Len(e) \in 1 .. Len(d) /\ Len(e) + (i - Len(e)) = i
      BY <1>1, <2>2
    <3>2. d[i - Len(e)] = Upper(i)
      BY <3>1
    <3> QED
      BY <1>2, <2>2, <3>2
  <2> QED
    BY <2>1, <2>2
<1> QED
  BY <1>2, <1>3

(* Nothing of a connection is lost, doubled or made up: a client prints    *)
(* the upper case of its messages in their order, and until it ends its    *)
(* printed answers, the answers on the way to it, the one the server holds *)
(* and the messages on the way to the server are all that it wrote.        *)
THEOREM EchoKeepsOrder == EchoSpec => []EchoInOrder
<1>1. ASSUME EchoInv PROVE EchoInOrder
  <2> SUFFICES ASSUME NEW c \in Clients
      PROVE LET here == IF serving = c /\ answer # << >> THEN <<answer>> ELSE << >>
            IN /\ echoed[c] = UpperOf(1, Len(echoed[c]))
               /\ ~Closed(c) =>
                    /\ echoed[c] \o down[c] \o here = UpperOf(1, written[c] - Len(up[c]))
                    /\ up[c] = [n \in 1 .. Len(up[c]) |-> written[c] - Len(up[c]) + n]
               /\ serving # c /\ at[c] \notin {"done", "crashed"} => up[c] = << >> /\ down[c] = << >>
    BY DEF EchoInOrder
  <2> DEFINE w == written[c]
             u == up[c]
             d == down[c]
             e == echoed[c]
             here == IF serving = c /\ answer # << >> THEN <<answer>> ELSE << >>
  <2>1. Exchanged(at[c], serving = c, toSend[c], w, u, d, e, Held(c))
    BY <1>1, Zenon DEF EchoInv, Exchange
  <2>2. /\ w \in Nat /\ u \in Seq(Nat) /\ d \in Seq(Answers) /\ e \in Seq(Answers)
        /\ \A n \in 1 .. Len(e) : e[n] = Upper(n)
        /\ at[c] \notin EndPlaces => Numbered(w, u, d, e, Held(c))
    BY <2>1, Zenon DEF Exchanged
  <2>3. Len(u) \in Nat /\ Len(d) \in Nat /\ Len(e) \in Nat
    BY <2>2, LenProperties
  <2>4. Closed(c) <=> at[c] \in EndPlaces
    BY DEF Closed, EndPlaces
  <2>5. Held(c) # << >> <=> serving = c /\ answer # << >>
    BY DEF Held
  <2>6. here = IF Held(c) # << >> THEN <<Held(c)>> ELSE << >>
    BY <2>5 DEF Held
  <2>7. at[c] \in EchoPlaces
    BY <1>1 DEF EchoInv, EchoTables
  <2>8. e = UpperOf(1, Len(e))
    BY <2>2, UpperInOrder
  <2> HIDE DEF w, u, d, e, here
  <2>9. ASSUME at[c] \notin EndPlaces
        PROVE  /\ (e \o d) \o here = UpperOf(1, w - Len(u))
               /\ u = [n \in 1 .. Len(u) |-> w - Len(u) + n]
    <3>1. Numbered(w, u, d, e, Held(c))
      BY <2>2, <2>9
    <3>2. /\ Held(c) = << >> => Len(e) + Len(d) + Len(u) = w
          /\ Held(c) # << >> => Held(c) = Upper(Len(e) + Len(d) + 1)
                             /\ Len(e) + Len(d) + 1 + Len(u) = w
          /\ \A n \in 1 .. Len(d) : d[n] = Upper(Len(e) + n)
          /\ \A n \in 1 .. Len(u) : u[n] = w - Len(u) + n
      BY <3>1, Zenon DEF Numbered
    <3> DEFINE s == e \o d
               k == Len(e) + Len(d)
    <3>3. /\ s \in Seq(Answers) /\ Len(s) = k
          /\ \A i \in 1 .. k : s[i] = Upper(i)
      BY <2>2, <3>2, ShownAndComing
    <3>4. k \in Nat
      BY <2>3
    <3>5. u = [n \in 1 .. Len(u) |-> w - Len(u) + n]
      BY <2>2, <2>3, <3>2
    <3>6. CASE Held(c) = << >>
      <4>1. w - Len(u) = k
        BY <2>2, <2>3, <3>2, <3>6
      <4>2. s \o here = s
        <5>1. here = << >>
          BY <2>6, <3>6
        <5> QED
          BY <3>3, <5>1, ConcatEmptySeq
      <4>3. s = UpperOf(1, k)
        BY <3>3, UpperInOrder
      <4> QED
        BY <3>5, <4>1, <4>2, <4>3, Zenon
    <3>7. CASE Held(c) # << >>
      <4>1. w - Len(u) = k + 1 /\ Held(c) = Upper(k + 1)
        BY <2>2, <2>3, <3>2, <3>7
      <4> HIDE DEF s, k
      <4> DEFINE a == Upper(k + 1)
                 t == Append(s, a)
      <4>2. a \in Answers
        BY <3>4, AnswersAre
      <4>3. s \o here = t
        <5>1. here = <<a>>
          BY <2>6, <3>7, <4>1
        <5> QED
          BY <3>3, <4>2, <5>1, AppendIsConcat
      <4>4. /\ t \in Seq(Answers) /\ Len(t) = k + 1
            /\ \A i \in 1 .. k : t[i] = s[i]
            /\ t[k + 1] = a
        BY <3>3, <4>2, AppendProperties
      <4>5. ASSUME NEW i \in 1 .. k + 1 PROVE t[i] = Upper(i)
        <5>1. i \in 1 .. k \/ i = k + 1
          BY <3>4
        <5> HIDE DEF t
        <5> QED
          BY <3>3, <4>4, <5>1
      <4> HIDE DEF t, a
      <4>6. t = UpperOf(1, k + 1)
        BY <4>4, <4>5, UpperInOrder
      <4> QED
        BY <3>5, <4>1, <4>3, <4>6, Zenon DEF s
    <3> QED
      BY <3>6, <3>7
  <2>10. ASSUME serving # c, at[c] \notin EndPlaces PROVE u = << >> /\ d = << >>
    <3>1. at[c] \in {"new", "queued"}
      BY <2>1, <2>7, <2>10, Zenon DEF Exchanged, EchoPlaces, EndPlaces
    <3>2. w = 0 /\ Held(c) = << >>
      BY <2>1, <3>1, Zenon DEF Exchanged
    <3>3. Len(e) + Len(d) + Len(u) = w
      BY <2>2, <2>10, <3>2, NothingHeld
    <3>4. Len(u) = 0 /\ Len(d) = 0
      BY <2>3, <3>2, <3>3
    <3> QED
      BY <2>2, <3>4, EmptySeq
  <2>11. at[c] \notin {"done", "crashed"} => at[c] \notin EndPlaces
    BY DEF EndPlaces
  <2> QED
    BY <2>4, <2>8, <2>9, <2>10, <2>11, Zenon DEF w, u, d, e, here
<1> QED
  BY <1>1, EchoInvariant, PTL

=============================================================================
