---------------------------- MODULE WorkSharing ----------------------------
(***************************************************************************)
(* The COMP8005 project: a server shares a search out to workers.  For one *)
(* user after the other each worker goes through the candidates that begin *)
(* with its part of the letters; the first that has the answer reports it, *)
(* and the server stops the others and starts everybody on the next user.  *)
(* What a candidate is and how it is tested is left out: the answer for a  *)
(* user is known by its first letter.                                      *)
(*                                                                         *)
(* Messages to a worker are cut out of one stream by two readers: the main *)
(* loop reads 256 bytes, the thread that listens during a search 40.  Most *)
(* messages are written as 256 bytes of which the first few are text, and  *)
(* "start" and "flush" from the menu as five bytes.  The main loop does    *)
(* not always empty its buffer, and a message of five bytes is read        *)
(* together with what was left behind it.                                  *)
(***************************************************************************)
EXTENDS Integers, SequencesExt, FiniteSets, FiniteSetsExt

CONSTANTS
  Workers,
  UserCount,     \* users on the server's list, numbered from 0
  PASS_ARR_LEN,  \* letters, numbered from 0
  AnswerOf,      \* of each user, the first letter of the answer
  UserLists,     \* lists that a server with so many threads may have: of each user, which command its name contains
  ThreadCounts,  \* what -t may say
  MaxJoins,      \* bound: connections accepted by a server with so many threads
  MaxMenu        \* bound: lines typed at a server with so many threads

ASSUME WorkSharingAssumption ==
  /\ IsFiniteSet(Workers)
  /\ UserCount \in Nat \ {0} /\ PASS_ARR_LEN \in Nat \ {0} /\ ThreadCounts \subseteq Nat \ {0}
  /\ AnswerOf \in [0 .. UserCount - 1 -> 0 .. PASS_ARR_LEN - 1]
  /\ MaxJoins \in [ThreadCounts -> Nat] /\ MaxMenu \in [ThreadCounts -> Nat]
  /\ UserLists \in [ThreadCounts -> SUBSET [0 .. UserCount - 1 -> {"none", "bare", "flush"}]]

VARIABLES
  server,     \* slots (client_socket), client_count, user_no, known, at, num_thread, names
  worker,     \* of each worker what its process knows
  s_buffer,   \* of each worker, the messages that its buffer holds, by the fives of bytes at which they begin
  th,         \* of each worker, the thread started last: is it "none", "running", "over",
              \*   "awaited" by the main loop or "joined"
  toWorker, toServer,
  astray,     \* history: server or workers were led astray (see FoundInOrder)
  joins, menu   \* how often somebody has joined, a line was typed

workVars == <<server, worker, s_buffer, th, toWorker, toServer, astray, joins, menu>>

FirstFd == 5   \* 3 is the listening socket, 4 the epoll instance

NewWorker == [mode |-> "off", fd |-> 0, socket_id |-> 0, num_thread |-> 0, client_count |-> 0,
              elements |-> 0, nodes |-> << >>, u |-> 0, index |-> 0,
              found |-> FALSE, has |-> FALSE, pending |-> 0, listeners |-> 0]

WorkInit ==
  /\ \E n \in ThreadCounts : \E names \in UserLists[n] :
       server = [slots |-> << >>, client_count |-> 0, user_no |-> 0, known |-> {},
                 at |-> "menu", num_thread |-> n, names |-> names]
  /\ worker = [w \in Workers |-> NewWorker]
  /\ toWorker = [w \in Workers |-> << >>]
  /\ toServer = [w \in Workers |-> << >>]
  /\ s_buffer = [w \in Workers |-> << >>] /\ th = [w \in Workers |-> "none"]
  /\ astray = FALSE
  /\ joins = 0 /\ menu = 0

-----------------------------------------------------------------------------
(* Messages and streams.                                                   *)

Frame(kind) == [kind |-> kind, length |-> 256, arg |-> 0]
Short(kind) == [kind |-> kind, length |-> 5, arg |-> 0]
Cuts == {"rest", "hash"}   \* what is left of a message of which the first bytes were read

(* The bytes of the first messages of a stream, and the first message that *)
(* a reader of so many bytes does not read to its end.                     *)
Offset(stream) ==
  LET offset[n \in 0 .. Len(stream)] == IF n = 0 THEN 0 ELSE offset[n - 1] + stream[n].length
  IN offset
FirstLeft(stream, bytes) ==
  Min({n \in 1 .. Len(stream) + 1 : n = Len(stream) + 1 \/ ~(Offset(stream)[n] <= bytes)})

(* What the reader sees is a C string: up to the first byte that is zero,  *)
(* and no command whose word is cut off by the end of the buffer.          *)
Word == 5
Seen(stream, bytes) ==
  {stream[n] : n \in {n \in 1 .. Len(stream) :
     /\ \A m \in 1 .. n - 1 :
          stream[m].length = Word /\ stream[m].kind \notin Cuts /\ Offset(stream)[m] <= bytes
     /\ Offset(stream)[n - 1] + Word <= bytes}}

(* The stream without what was read; of a message that is cut only zeros   *)
(* and what is no command are left.  A user has at most so much text, the  *)
(* end of which is a hash.                                                 *)
UserText == 200
Rest(m, length) ==
  [kind |-> IF m.kind \in {"user", "hash"} /\ length > 256 - UserText THEN "hash" ELSE "rest",
   length |-> length, arg |-> 0]
Without(stream, bytes) ==
  LET n    == FirstLeft(stream, bytes)
      left == SubSeq(stream, n, Len(stream))
  IN IF n <= Len(stream) /\ Offset(stream)[n - 1] # bytes
     THEN [left EXCEPT ![1] = Rest(left[1], Offset(stream)[n] - bytes)] ELSE left

Kinds(messages) == {m.kind : m \in messages}

(* Words that are read alone, with which the string does not end: behind   *)
(* them shows what the buffer held before, up to the first zero.           *)
Open(m) == m.length = Word /\ m.kind \notin Cuts
Stale(buffer, stream) ==
  IF Word * Len(stream) < 256 /\ \A n \in 1 .. Len(stream) : Open(stream[n])
  THEN {buffer[c] : c \in {c \in DOMAIN buffer :
          /\ c >= Len(stream)
          /\ \A d \in Len(stream) .. c - 1 : d \in DOMAIN buffer /\ Open(buffer[d])}}
  ELSE {}

(* What the buffer holds then.  A name begins five bytes behind its "user" *)
(* and is no longer than that: the command that it contains is cut off     *)
(* from what belongs to it.                                                *)
Overwritten(buffer, stream) ==
  LET offset == Offset(stream)
      begun  == {n \in 1 .. Len(stream) :
                   offset[n - 1] < 256 /\ offset[n - 1] % Word = 0 /\ stream[n].kind \notin Cuts}
      named  == {n \in begun : stream[n].kind = "user" /\ server.names[stream[n].arg] # "none"}
      word(n) == IF server.names[stream[n].arg] = "flush" THEN "flush" ELSE "bare"
      begins(c) == {n \in begun : offset[n - 1] = Word * c}
      names(c)  == {n \in named : offset[n - 1] = Word * (c - 1)}
      cells  == {c \in 0 .. 256 \div Word + 1 :
                   \/ begins(c) # {} \/ names(c) # {}
                   \/ c \in DOMAIN buffer /\ Word * c >= offset[Len(stream)]}
  IN [c \in cells |->
        CASE begins(c) # {} -> stream[Min(begins(c))]
          [] begins(c) = {} /\ names(c) # {} -> Frame(word(Min(names(c))))
          [] OTHER -> buffer[c]]

(* strtok puts a zero behind the word: what belongs to it is cut off.      *)
Bare(buffer, kind) ==
  [c \in DOMAIN buffer |-> IF buffer[c].kind = kind THEN Frame("bare") ELSE buffer[c]]

-----------------------------------------------------------------------------
(* The server.  The slots in use are those below client_count; a message   *)
(* goes to the workers in them.  A worker of mode "off" has not joined.    *)

Slots == {i \in 0 .. server.client_count - 1 : i \in DOMAIN server.slots}
InUse(w)   == worker[w].mode # "off" /\ \E i \in Slots : server.slots[i] = worker[w].fd
Reached(w) == InUse(w) /\ worker[w].mode \in {"idle", "searching"}
Sent(message) == [w \in Workers |-> IF Reached(w) THEN Append(toWorker[w], message) ELSE toWorker[w]]

(* Writing to a worker that has ended may kill the server.                 *)
AfterWriting(at) == {at} \cup IF \E w \in Workers : InUse(w) /\ ~Reached(w) THEN {"killed"} ELSE {}

LowestFd == CHOOSE fd \in FirstFd .. FirstFd + Cardinality(Workers) :
              /\ \A w \in Workers : worker[w].fd # fd
              /\ \A lower \in FirstFd .. fd - 1 : \E w \in Workers : worker[w].fd = lower

(* add_new_client: the first empty slot among one more than before.        *)
Accept(w) ==
  /\ server.at = "menu" /\ joins < MaxJoins[server.num_thread]
  /\ worker[w].mode = "off"
  /\ LET count == server.client_count + 1
         empty == {i \in 0 .. count - 1 : i \notin DOMAIN server.slots \/ server.slots[i] = 0}
         slots == IF empty = {} THEN server.slots
                  ELSE [i \in DOMAIN server.slots \cup {Min(empty)} |->
                          IF i = Min(empty) THEN LowestFd ELSE server.slots[i]]
     IN server' = [server EXCEPT !.client_count = count, !.slots = slots]
  /\ worker' = [worker EXCEPT ![w] = [NewWorker EXCEPT !.mode = "idle", !.fd = LowestFd]]
  /\ s_buffer' = [s_buffer EXCEPT ![w] = << >>] /\ th' = [th EXCEPT ![w] = "none"]
  /\ joins' = joins + 1
  /\ UNCHANGED <<toWorker, toServer, astray, menu>>

(* The menu.  Nothing keeps whoever chooses from starting a search while   *)
(* another goes on, or an answer or an earlier command is still under way. *)
Chosen == server.at = "menu" /\ menu < MaxMenu[server.num_thread] /\ menu' = menu + 1
Quiet == \A w \in Workers : worker[w].mode # "searching" /\ toWorker[w] = << >> /\ toServer[w] = << >>

SendSocketInfo ==
  /\ Chosen
  /\ toWorker' = [w \in Workers |->
       IF Reached(w)
       THEN Append(toWorker[w],
                   [Frame("send") EXCEPT !.arg = <<worker[w].fd, server.num_thread, server.client_count, UserCount>>])
       ELSE toWorker[w]]
  /\ \E at \in AfterWriting("menu") : server' = [server EXCEPT !.at = at]
  /\ UNCHANGED <<worker, s_buffer, th, toServer, astray, joins>>

SendUserInfo ==
  /\ Chosen
  /\ toWorker' = [w \in Workers |->
       IF Reached(w) THEN toWorker[w] \o [u \in 1 .. UserCount |-> [Frame("user") EXCEPT !.arg = u - 1]] ELSE toWorker[w]]
  /\ \E at \in AfterWriting("menu") : server' = [server EXCEPT !.at = at]
  /\ UNCHANGED <<worker, s_buffer, th, toServer, astray, joins>>

StartSearch ==
  /\ Chosen
  /\ IF server.user_no \in server.known
     THEN UNCHANGED <<server, toWorker, astray>>
     ELSE /\ toWorker' = Sent(Short("start"))
          /\ astray' = (astray \/ ~Quiet)
          /\ \E at \in AfterWriting("menu") : server' = [server EXCEPT !.at = at]
  /\ UNCHANGED <<worker, s_buffer, th, toServer, joins>>

FlushUserInfo ==
  /\ Chosen
  /\ toWorker' = Sent(Short("flush"))
  /\ astray' = TRUE
  /\ \E at \in AfterWriting("menu") : server' = [server EXCEPT !.known = {}, !.at = at]
  /\ UNCHANGED <<worker, s_buffer, th, toServer, joins>>

(* Any other line typed goes to the workers as it is.  It may contain a    *)
(* command; "exit" is like "display" to them, and with "send" or "user"    *)
(* nothing belongs to it.                                                  *)
Relay(kind) ==
  /\ Chosen
  /\ toWorker' = Sent(Frame(kind))
  /\ astray' = (astray \/ kind \in {"bare", "start", "flush", "found"})
  /\ \E at \in AfterWriting("menu") : server' = [server EXCEPT !.at = at]
  /\ UNCHANGED <<worker, s_buffer, th, toServer, joins>>

(* Fault: behind the last user the number is not set back.                 *)
HandleFoundPastLast(w) ==
  /\ server.at = "menu" /\ toServer[w] # << >> /\ Head(toServer[w]).kind = "found"
  /\ LET user_no == Head(toServer[w]).arg
     IN /\ server' = [server EXCEPT !.known = @ \cup {user_no}, !.user_no = user_no + 1,
                                 !.at = IF user_no + 1 = UserCount THEN "menu" ELSE "pause"]
        /\ astray' = (astray \/ user_no \in server.known)
  /\ toServer' = [toServer EXCEPT ![w] = Tail(@)]
  /\ toWorker' = Sent(Frame("found"))
  /\ UNCHANGED <<worker, s_buffer, th, joins, menu>>

(* Fault: the server goes on behind the last user.                         *)
HandleFoundOnAndOn(w) ==
  /\ server.at = "menu" /\ toServer[w] # << >> /\ Head(toServer[w]).kind = "found"
  /\ LET user_no == Head(toServer[w]).arg
     IN /\ server' = [server EXCEPT !.known = @ \cup {user_no},
                                    !.user_no = (user_no + 1) % UserCount, !.at = "pause"]
        /\ astray' = (astray \/ user_no \in server.known)
  /\ toServer' = [toServer EXCEPT ![w] = Tail(@)]
  /\ toWorker' = Sent(Frame("found"))
  /\ UNCHANGED <<worker, s_buffer, th, joins, menu>>

(* A report is taken for the user it names.  It is counted, but the count  *)
(* starts again before the next is read, so a second report of the same    *)
(* answer is handled like the first.  Then a pause, and the next user.  A  *)
(* user that is not on the list is looked up and the null pointer used.    *)
HandleFound(w) ==
  /\ server.at = "menu" /\ toServer[w] # << >> /\ Head(toServer[w]).kind = "found"
  /\ LET user_no == Head(toServer[w]).arg
         next == user_no + 1
     IN IF user_no >= UserCount
        THEN server' = [server EXCEPT !.at = "killed"] /\ UNCHANGED astray
        ELSE /\ \E at \in AfterWriting(IF next = UserCount THEN "menu" ELSE "pause") :
                  server' = [server EXCEPT !.known = @ \cup {user_no},
                                           !.user_no = IF next = UserCount THEN 0 ELSE next,
                                           !.at = at]
             /\ astray' = (astray \/ user_no \in server.known)
  /\ toServer' = [toServer EXCEPT ![w] = Tail(@)]
  /\ toWorker' = Sent(Frame("found"))
  /\ UNCHANGED <<worker, s_buffer, th, joins, menu>>

StartNext ==
  /\ server.at = "pause"
  /\ \E at \in AfterWriting("menu") : server' = [server EXCEPT !.at = at]
  /\ toWorker' = Sent(Frame("start"))
  /\ UNCHANGED <<worker, s_buffer, th, toServer, astray, joins, menu>>

(* remove_client: the loop ends one slot earlier once a slot is empty.     *)
HandleExit(w) ==
  /\ server.at = "menu" /\ toServer[w] # << >> /\ Head(toServer[w]).kind = "exit"
  /\ LET slot == {i \in Slots : server.slots[i] = worker[w].fd}
     IN /\ server' = IF slot = {} THEN server
                     ELSE [server EXCEPT !.slots[Min(slot)] = 0, !.client_count = @ - 1]
        /\ worker' = IF slot = {} THEN worker ELSE [worker EXCEPT ![w] = [NewWorker EXCEPT !.mode = "off"]]
  /\ toServer' = [toServer EXCEPT ![w] = Tail(@)]
  /\ toWorker' = [toWorker EXCEPT ![w] = << >>]
  /\ UNCHANGED <<s_buffer, th, astray, joins, menu>>

-----------------------------------------------------------------------------
(* A worker.                                                               *)

(* Fault: the end of a part belongs to it.                                 *)
Range0Closed(w) ==
  LET size == PASS_ARR_LEN \div worker[w].client_count + 1
  IN size * (worker[w].socket_id - FirstFd) .. size * (worker[w].socket_id - FirstFd + 1)

Range0(w) ==
  LET size == PASS_ARR_LEN \div worker[w].client_count + 1
  IN size * (worker[w].socket_id - FirstFd) .. size * (worker[w].socket_id - FirstFd + 1) - 1

NoElement(me) == me.index >= me.elements \/ me.index >= Len(me.nodes)

(* Of several commands in one string the first of this order is obeyed.    *)
Commands == <<"bare", "send", "user", "flush", "start", "display">>
Obeyed(kinds) ==
  LET found == {n \in 1 .. Len(Commands) : Commands[n] \in kinds}
  IN IF found = {} THEN "none" ELSE Commands[Min(found)]

(* A line that is no command ends in waiting for the listening thread when *)
(* it is "display" or has the digit of that option in it, which a hash may *)
(* have.  To wait for a thread that there is not, or twice, is undefined.  *)
Join(w) ==
  /\ th' = [th EXCEPT ![w] = IF @ = "running" THEN "awaited" ELSE "joined"]
  /\ astray' = (astray \/ th[w] \in {"none", "joined"})
  /\ \/ UNCHANGED worker
     \/ th[w] \in {"none", "joined"} /\ worker' = [worker EXCEPT ![w].mode = "crashed"]

(* The main loop reads.  What is no command is shown and forgotten.  A     *)
(* worker that was not told how many share the work divides by zero, and   *)
(* one with no user left to search for, or whose command lacks what should *)
(* belong to it, follows a null pointer.                                   *)
WorkerRead(w) ==
  /\ worker[w].mode = "idle" /\ th[w] # "awaited" /\ toWorker[w] # << >>
  /\ LET me == worker[w]
         fresh == Seen(toWorker[w], 256)
         seen  == fresh \cup Stale(s_buffer[w], toWorker[w])
         text  == Overwritten(s_buffer[w], toWorker[w])
         obeyed == Obeyed(Kinds(seen))
         misled == obeyed # Obeyed(Kinds(fresh))
         info  == (CHOOSE m \in seen : m.kind = "send").arg
         user  == (CHOOSE m \in seen : m.kind = "user").arg
     IN \/ /\ obeyed = "bare"
           /\ worker' = [worker EXCEPT ![w].mode = "crashed"]
           /\ s_buffer' = [s_buffer EXCEPT ![w] = << >>]
           /\ astray' = (astray \/ misled) /\ UNCHANGED th
        \/ /\ obeyed = "send"
           /\ worker' = [worker EXCEPT ![w].socket_id = info[1], ![w].num_thread = info[2],
                                       ![w].client_count = info[3], ![w].elements = info[4]]
           /\ s_buffer' = [s_buffer EXCEPT ![w] = Bare(text, "send")]
           /\ astray' = (astray \/ misled) /\ UNCHANGED th
        \/ /\ obeyed = "user"
           /\ worker' = CASE me.u > me.elements   -> [worker EXCEPT ![w].u = @ + 1]
                          [] me.u <= me.elements /\ me.u > Len(me.nodes) -> [worker EXCEPT ![w].mode = "crashed"]
                          [] OTHER -> [worker EXCEPT ![w].u = @ + 1, ![w].elements = @ + 1,
                                                     ![w].nodes = InsertAt(@, me.u + 1, user)]
           /\ s_buffer' = [s_buffer EXCEPT ![w] = Bare(text, "user")]
           /\ astray' = (astray \/ misled) /\ UNCHANGED th
        \/ /\ obeyed = "flush"
           /\ worker' = IF me.elements = 0 \/ me.nodes = << >> THEN worker
                        ELSE [worker EXCEPT ![w].elements = 0, ![w].num_thread = 0, ![w].nodes = Tail(@),
                                            ![w].index = 0, ![w].u = 0]
           /\ s_buffer' = [s_buffer EXCEPT ![w] = text]
           /\ astray' = (astray \/ misled) /\ UNCHANGED th
        \/ /\ obeyed = "start"
           /\ IF NoElement(me) \/ me.client_count = 0
              THEN worker' = [worker EXCEPT ![w].mode = "crashed"] /\ UNCHANGED th
              ELSE /\ worker' = [worker EXCEPT ![w].mode = "searching", ![w].found = FALSE,
                                               ![w].has = FALSE, ![w].listeners = @ + 1]
                   /\ th' = [th EXCEPT ![w] = "running"]
           /\ s_buffer' = [s_buffer EXCEPT ![w] = << >>]
           /\ astray' = (astray \/ misled)
        \/ /\ obeyed = "display" \/ (obeyed = "none" /\ "hash" \in Kinds(fresh))
           /\ Join(w)
           /\ s_buffer' = [s_buffer EXCEPT ![w] = text]
        \/ /\ obeyed = "none"
           /\ UNCHANGED <<worker, th>>
           /\ s_buffer' = [s_buffer EXCEPT ![w] = text]
           /\ astray' = (astray \/ misled)
  /\ toWorker' = [toWorker EXCEPT ![w] = Without(@, 256)]
  /\ UNCHANGED <<server, toServer, joins, menu>>

(* A listening thread reads until it has seen that an answer was found,    *)
(* whether the search still runs or not.  It may be the one started last.  *)
Listen(w) ==
  /\ worker[w].listeners > 0 /\ worker[w].mode \in {"idle", "searching"} /\ toWorker[w] # << >>
  /\ IF "found" \in Kinds(Seen(toWorker[w], 40))
     THEN /\ worker' = [worker EXCEPT ![w].found = TRUE, ![w].listeners = @ - 1]
          /\ \/ th' = [th EXCEPT ![w] = CASE @ = "running" -> "over" [] @ = "awaited" -> "joined" [] OTHER -> @]
             \/ worker[w].listeners > 1 /\ UNCHANGED th
     ELSE UNCHANGED <<worker, th>>
  /\ toWorker' = [toWorker EXCEPT ![w] = Without(@, 40)]
  /\ UNCHANGED <<server, s_buffer, toServer, astray, joins, menu>>

(* One thread of the team comes upon the answer.                           *)
Discover(w) ==
  /\ worker[w].mode = "searching" /\ ~worker[w].found /\ ~worker[w].has
  /\ AnswerOf[worker[w].nodes[worker[w].index + 1]] \in Range0(w)
  /\ worker' = [worker EXCEPT ![w].has = TRUE]
  /\ UNCHANGED <<server, s_buffer, th, astray, toWorker, toServer, joins, menu>>

(* A thread that begins its next share sees the answer, and that nobody    *)
(* has reported it; reporting it and saying so is another step, before     *)
(* which others of the team may see the same.                              *)
SeeAnswer(w) ==
  /\ worker[w].mode = "searching" /\ ~worker[w].found /\ worker[w].has
  /\ worker[w].pending < worker[w].num_thread
  /\ worker' = [worker EXCEPT ![w].pending = @ + 1]
  /\ UNCHANGED <<server, s_buffer, th, astray, toWorker, toServer, joins, menu>>
(* Fault: the number of the next user is reported.                         *)
ReportNext(w) ==
  /\ worker[w].mode = "searching" /\ worker[w].pending > 0
  /\ toServer' = [toServer EXCEPT ![w] = Append(@, [Frame("found") EXCEPT !.arg = worker[w].index + 1])]
  /\ worker' = [worker EXCEPT ![w].pending = @ - 1, ![w].found = TRUE]
  /\ UNCHANGED <<server, s_buffer, th, astray, toWorker, joins, menu>>
Report(w) ==
  /\ worker[w].mode = "searching" /\ worker[w].pending > 0
  /\ toServer' = [toServer EXCEPT ![w] = Append(@, [Frame("found") EXCEPT !.arg = worker[w].index])]
  /\ worker' = [worker EXCEPT ![w].pending = @ - 1, ![w].found = TRUE]
  /\ UNCHANGED <<server, s_buffer, th, astray, toWorker, joins, menu>>

EndSearch(w) ==
  /\ worker[w].mode = "searching" /\ worker[w].found /\ worker[w].pending = 0
  /\ worker' = [worker EXCEPT ![w].mode = "idle", ![w].index = @ + 1]
  /\ UNCHANGED <<server, s_buffer, th, astray, toWorker, toServer, joins, menu>>

TypeExit(w) ==
  /\ worker[w].mode = "idle" /\ th[w] # "awaited"
  /\ toServer' = [toServer EXCEPT ![w] = Append(@, Frame("exit"))]
  /\ worker' = [worker EXCEPT ![w].mode = "gone"]
  /\ UNCHANGED <<server, s_buffer, th, astray, toWorker, joins, menu>>

-----------------------------------------------------------------------------

WorkerStep(w) ==
  WorkerRead(w) \/ Listen(w) \/ Discover(w) \/ SeeAnswer(w) \/ Report(w) \/ EndSearch(w) \/ TypeExit(w)
WorkNext ==
  \/ \E w \in Workers : Accept(w) \/ HandleFound(w) \/ HandleExit(w)
  \/ SendSocketInfo \/ SendUserInfo \/ StartSearch \/ FlushUserInfo \/ StartNext
  \/ \E kind \in {"text", "bare", "start", "flush", "found", "display"} : Relay(kind)
  \/ \E w \in Workers : WorkerStep(w)

WorkSpec == WorkInit /\ [][WorkNext]_workVars

-----------------------------------------------------------------------------

WorkTypeOK ==
  /\ server.client_count \in 0 .. Cardinality(Workers)
  /\ server.at \in {"menu", "pause", "killed"}
  /\ server.user_no \in 0 .. UserCount - 1
  /\ server.known \subseteq 0 .. UserCount - 1
  /\ \A w \in Workers :
       /\ worker[w].mode \in {"off", "idle", "searching", "gone", "crashed"}
       /\ worker[w].pending \in 0 .. server.num_thread

(* Six things lead server and workers astray for good, none of which the   *)
(* code keeps from happening: an answer is reported that is known already, *)
(* as two threads that see it do; a search is started before everybody is  *)
(* done with, and has read all of, the one before; the users are taken     *)
(* back; a command is typed in full; a word is read together with what the *)
(* buffer still holds, and something else obeyed; and the main loop waits  *)
(* for a thread that it never started or has waited for already.           *)

(* As long as none of these has happened the users are dealt with in       *)
(* order, however late a worker reads and whoever joins, leaves or is not  *)
(* told: an answer is not known before those of all earlier users are.     *)
FoundInOrder == ~astray => \A user \in server.known : 0 .. user \subseteq server.known

(* While the workers still hold what the server told them, and nobody has  *)
(* left, no two search the same letters and every letter is somebody's.    *)
Informed(w) == worker[w].client_count = server.client_count /\ worker[w].socket_id = worker[w].fd
LettersAreShared ==
  LET team == {w \in Workers : Reached(w)}
  IN team # {} /\ Cardinality(team) = server.client_count /\ (\A w \in team : Informed(w))
       /\ {worker[w].fd : w \in team} = FirstFd .. FirstFd + server.client_count - 1
     => /\ 0 .. PASS_ARR_LEN - 1 \subseteq UNION {Range0(w) : w \in team}
        /\ \A v, w \in team : v # w => Range0(v) \cap Range0(w) = {}

(* As long as nothing has led anybody astray, a worker crashes only if it  *)
(* was started before it was told with how many others, and for which      *)
(* users, it searches: none behind the last user, or by a cut message.     *)
Uninformed(w) ==
  worker[w].client_count = 0 \/ worker[w].elements < UserCount
    \/ worker[w].nodes # [n \in 1 .. UserCount |-> n - 1]
CrashesUninformed ==
  ~astray => \A w \in Workers : worker[w].mode = "crashed" => Uninformed(w)

=============================================================================
