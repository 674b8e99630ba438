---------------------------- MODULE FileTransfer ----------------------------
(***************************************************************************)
(* COMP7005 assignment 1: clients send text files to one server.  A client *)
(* writes the number of files, then for each file its name, its size and   *)
(* its content, and waits for a CONFIRM after each (send.c).  The server   *)
(* is one process: select() over the listening socket and a table of       *)
(* client sockets, and a blocking download_file() for each accepted one    *)
(* (server.c, download.c).                                                 *)
(*                                                                         *)
(* Sizes are counted in chunks of 256 bytes.  A message is one write(); a  *)
(* name too long for the 14 bytes the server reads arrives in two parts.   *)
(***************************************************************************)
EXTENDS Integers, Sequences, FiniteSets

CONSTANTS
  Clients,     \* the clients, each with an address (and a directory) of its own
  None,        \* a free entry of the table of sockets
  Slots,       \* BACKLOG, the length of the table
  Files,       \* Files[c]: the files of client c, in the order of its arguments
  Directory,   \* the -d argument: <<>> for ".", <<"/", ...>> absolute, else relative
  Killable,    \* clients that may be killed
  ServerKillable   \* whether the server may be

FileRecord == [name : STRING, size : Nat, long : BOOLEAN]

ASSUME FileTransferAssumption ==
  /\ None \notin Clients
  /\ Slots \in Nat \ {0}
  /\ Files \in [Clients -> Seq(FileRecord)]
  /\ Directory \in Seq(STRING)
  /\ Killable \subseteq Clients
  /\ ServerKillable \in BOOLEAN

VARIABLES
  cpc,            \* [Clients -> where it is]
  current,        \* [Clients -> the file being sent], 0 before the first
  sent,           \* [Clients -> chunks of it written]: current_size
  confirmed,      \* history: [Clients -> files reported "SERVER RECEIVED"]
  up, down,       \* [Clients -> what is on its way to, and from, the server]
  backlog,        \* connections waiting to be accepted
  broken,         \* clients whose connection has been reset
  spc,            \* where the server is
  client_socket,  \* its table of sockets
  active_sd,      \* the socket download_file() reads
  readfds,        \* the sockets select() found readable
  file_count, count, file_name, file_size, downloaded, at_end,
                  \* locals of download_file(); at_end: received_bytes is 0
  cwd,            \* the server's working directory, from where it was started
  disk            \* what is stored: <<directory, name>> -> messages written to it

clientVars == <<cpc, current, sent, confirmed>>
network    == <<up, down, backlog, broken>>
locals     == <<file_count, count, file_name, file_size, downloaded, at_end>>
serverVars == <<spc, client_socket, active_sd, readfds, locals, cwd, disk>>
vars       == <<clientVars, network, serverVars>>

What    == {"count", "name", "rest", "size", "data", "junk"}
Message == [what : What, file : Nat, part : Nat]
Names   == UNION { { Files[c][i].name : i \in 1..Len(Files[c]) } : c \in Clients }
Paths   == { Directory \o <<c>> : c \in Clients }

Gone(c) == cpc[c] \in {"closed", "killed"}

TypeOK ==
  /\ cpc \in [Clients -> {"start", "greet", "count", "next", "name", "size",
                          "content", "confirm", "closed", "killed"}]
  /\ current \in [Clients -> Nat] /\ confirmed \in [Clients -> Nat]
  /\ \A c \in Clients : current[c] <= Len(Files[c]) /\ confirmed[c] <= Len(Files[c])
  /\ sent \in [Clients -> Nat]
  /\ up \in [Clients -> Seq(Message)]
  /\ down \in [Clients -> Seq({"greeting", "CONFIRM"})]
  /\ backlog \in Seq(Clients)
  /\ broken \subseteq Clients
  /\ spc \in {"select", "accept", "count", "name", "size", "content", "sweep", "dead"}
  /\ client_socket \in [1..Slots -> Clients \cup {None}]
  /\ active_sd \in Clients \cup {None}
  /\ readfds \subseteq Clients
  /\ file_count \in Nat /\ count \in 0..file_count
  /\ file_name \in Names \cup {""}
  /\ file_size \in Nat /\ downloaded \in Nat /\ at_end \in BOOLEAN
  /\ cwd \in Seq(STRING \cup Clients)
  /\ \A k \in DOMAIN disk : disk[k] \in Seq(Message)

Init ==
  /\ cpc = [c \in Clients |-> "start"]
  /\ current = [c \in Clients |-> 0]
  /\ sent = [c \in Clients |-> 0]
  /\ confirmed = [c \in Clients |-> 0]
  /\ up = [c \in Clients |-> <<>>]
  /\ down = [c \in Clients |-> <<>>]
  /\ backlog = <<>>
  /\ broken = {}
  /\ spc = "select"
  /\ client_socket = [i \in 1..Slots |-> None]
  /\ active_sd = None
  /\ readfds = {}
  /\ file_count = 0 /\ count = 0 /\ file_name = "" /\ file_size = 0
  /\ downloaded = 0 /\ at_end = FALSE
  /\ cwd = <<>>
  /\ disk = <<>>

-----------------------------------------------------------------------------
(* The client *)

File(c) == Files[c][current[c]]

(* write() and on to pc.  The first write to a server that has died is     *)
(* lost, the next one kills the client (SIGPIPE).                          *)
Write(c, ms, pc) ==
  IF spc = "dead"
  THEN /\ broken' = broken \cup {c}
       /\ cpc' = [cpc EXCEPT ![c] = IF c \in broken THEN "killed" ELSE pc]
       /\ UNCHANGED up
  ELSE /\ up' = [up EXCEPT ![c] = @ \o ms]
       /\ cpc' = [cpc EXCEPT ![c] = pc]
       /\ UNCHANGED broken

(* read() of a reply: the answer, or nothing at all once the server has    *)
(* died.  No branch of send_file() depends on which: on a failed read the  *)
(* buffer still holds the CONFIRM read before.                             *)
ReadReply(c) ==
  /\ down[c] # <<>> \/ spc = "dead"
  /\ down' = [down EXCEPT ![c] = IF @ = <<>> THEN @ ELSE Tail(@)]

NameParts(c, i) ==
  LET whole == <<[what |-> "name", file |-> i, part |-> 0]>>
  IN  IF Files[c][i].long THEN whole \o <<[what |-> "rest", file |-> i, part |-> 0]>> ELSE whole

Content(c, i) == [p \in 1..Files[c][i].size |-> [what |-> "data", file |-> i, part |-> p]]

Connect(c) ==
  /\ cpc[c] = "start"
  /\ spc # "dead"
  /\ backlog' = Append(backlog, c)
  /\ cpc' = [cpc EXCEPT ![c] = "greet"]
  /\ UNCHANGED <<current, sent, confirmed, up, down, broken, serverVars>>

SendCount(c) ==
  /\ cpc[c] = "greet"
  /\ ReadReply(c)
  /\ Write(c, <<[what |-> "count", file |-> 0, part |-> Len(Files[c])]>>, "count")
  /\ UNCHANGED <<current, sent, confirmed, backlog, serverVars>>

CountConfirmed(c) ==
  /\ cpc[c] = "count"
  /\ ReadReply(c)
  /\ cpc' = [cpc EXCEPT ![c] = "next"]
  /\ UNCHANGED <<current, sent, confirmed, up, backlog, broken, serverVars>>

(* The loop over the files: the next name, or close(). *)
NextFile(c) ==
  /\ cpc[c] = "next"
  /\ IF current[c] < Len(Files[c])
     THEN /\ Write(c, NameParts(c, current[c] + 1), "name")
          /\ current' = [current EXCEPT ![c] = @ + 1]
     ELSE /\ cpc' = [cpc EXCEPT ![c] = "closed"]
          /\ UNCHANGED <<up, current, broken>>
  /\ UNCHANGED <<sent, confirmed, down, backlog, serverVars>>

SendSize(c) ==
  /\ cpc[c] = "name"
  /\ ReadReply(c)
  /\ Write(c, <<[what |-> "size", file |-> current[c], part |-> File(c).size]>>, "size")
  /\ UNCHANGED <<current, sent, confirmed, backlog, serverVars>>

(* The size is confirmed: an empty file has no content to send and no      *)
(* CONFIRM to wait for.                                                    *)
StartContent(c) ==
  /\ cpc[c] = "size"
  /\ ReadReply(c)
  /\ sent' = [sent EXCEPT ![c] = 0]
  /\ cpc' = [cpc EXCEPT ![c] = IF File(c).size = 0 THEN "next" ELSE "content"]
  /\ UNCHANGED <<current, confirmed, up, backlog, broken, serverVars>>

(* Fault: the client goes on without the CONFIRM of the content. *)
SendChunkAndGoOn(c) ==
  /\ cpc[c] = "content"
  /\ Write(c, <<Content(c, current[c])[sent[c] + 1]>>,
           IF sent[c] + 1 = File(c).size THEN "next" ELSE "content")
  /\ sent' = [sent EXCEPT ![c] = @ + 1]
  /\ UNCHANGED <<current, confirmed, down, backlog, serverVars>>

SendChunk(c) ==
  /\ cpc[c] = "content"
  /\ Write(c, <<Content(c, current[c])[sent[c] + 1]>>,
           IF sent[c] + 1 = File(c).size THEN "confirm" ELSE "content")
  /\ sent' = [sent EXCEPT ![c] = @ + 1]
  /\ UNCHANGED <<current, confirmed, down, backlog, serverVars>>

Received(c) ==
  /\ cpc[c] = "confirm"
  /\ ReadReply(c)
  /\ confirmed' = [confirmed EXCEPT ![c] = current[c]]
  /\ cpc' = [cpc EXCEPT ![c] = "next"]
  /\ UNCHANGED <<current, sent, up, backlog, broken, serverVars>>

(* The client's process is killed; a connection closed with a reply unread *)
(* is reset.                                                               *)
KillClient(c) ==
  /\ cpc[c] # "start" /\ ~Gone(c)
  /\ c \in Killable
  /\ cpc' = [cpc EXCEPT ![c] = "killed"]
  /\ broken' = IF down[c] = <<>> THEN broken ELSE broken \cup {c}
  /\ UNCHANGED <<current, sent, confirmed, up, down, backlog, serverVars>>

ClientStep(c) ==
  \/ Connect(c) \/ SendCount(c) \/ CountConfirmed(c) \/ NextFile(c)
  \/ SendSize(c) \/ StartContent(c) \/ SendChunk(c) \/ Received(c)

-----------------------------------------------------------------------------
(* The server *)

(* write(active_sd, "CONFIRM"): the first one to a client that is gone gets *)
(* its connection reset.                                                    *)
Confirm ==
  IF Gone(active_sd)
  THEN broken' = broken \cup {active_sd} /\ UNCHANGED down
  ELSE down' = [down EXCEPT ![active_sd] = Append(@, "CONFIRM")] /\ UNCHANGED broken

AtEnd == up[active_sd] = <<>> /\ Gone(active_sd)

Readable == { c \in Clients : /\ \E i \in 1..Slots : client_socket[i] = c
                              /\ up[c] # <<>> \/ Gone(c) }

Select ==
  /\ spc = "select"
  /\ backlog # <<>> \/ Readable # {}
  /\ readfds' = Readable
  /\ spc' = IF backlog # <<>> THEN "accept" ELSE "sweep"
  /\ UNCHANGED <<clientVars, network, client_socket, active_sd, locals, cwd, disk>>

Absolute == Directory # <<>> /\ Head(Directory) = "/"

(* mkdirs() and chdir() to the client's directory. *)
EnterDirectory(c) ==
  cwd' = IF Absolute THEN Directory \o <<c>> ELSE cwd \o Directory \o <<c>>

(* Back to the directory of the -d argument, with ".." for ".".  A relative *)
(* one does not exist inside itself: chdir() fails and nothing is undone.   *)
LeaveDirectory ==
  cwd' = CASE Directory = <<>> -> SubSeq(cwd, 1, Len(cwd) - 1)
           [] Absolute         -> Directory
           [] OTHER            -> cwd

(* accept(): the greeting, the first free entry of the table, and          *)
(* download_file() on active_sd, the new socket only if it got an entry.   *)
Accept ==
  /\ spc = "accept"
  /\ LET c == Head(backlog)
         free == { i \in 1..Slots : client_socket[i] = None }
     IN  /\ down' = IF Gone(c) THEN down ELSE [down EXCEPT ![c] = Append(@, "greeting")]
         /\ broken' = IF Gone(c) THEN broken \cup {c} ELSE broken
         /\ EnterDirectory(c)
         /\ IF free = {}
            THEN UNCHANGED <<client_socket, active_sd>>
            ELSE \E i \in free : /\ \A j \in free : i <= j
                                 /\ client_socket' = [client_socket EXCEPT ![i] = c]
                                 /\ active_sd' = c
  /\ backlog' = Tail(backlog)
  /\ file_count' = 0 /\ count' = 0 /\ downloaded' = 0 /\ at_end' = FALSE
  /\ spc' = "count"
  /\ UNCHANGED <<clientVars, up, readfds, file_name, file_size, disk>>

(* Fault: one file too many is expected. *)
ContinueTooLong(done, total) ==
  IF done <= total
  THEN spc' = "name" /\ UNCHANGED cwd
  ELSE spc' = "sweep" /\ LeaveDirectory

(* The next turn of the loop over file_count files, or out of download_file(). *)
Continue(done, total) ==
  IF done < total
  THEN spc' = "name" /\ UNCHANGED cwd
  ELSE spc' = "sweep" /\ LeaveDirectory

(* The number of files: what an ended connection leaves in the buffer is   *)
(* nothing or the number an earlier call read.                             *)
ReadCount ==
  /\ spc = "count"
  /\ \/ /\ up[active_sd] # <<>>
        /\ LET m == Head(up[active_sd])
           IN  file_count' = IF m.what = "count" THEN m.part ELSE 0
        /\ up' = [up EXCEPT ![active_sd] = Tail(@)]
     \/ /\ AtEnd
        /\ file_count' \in {0} \cup { Len(Files[c]) : c \in Clients }
        /\ UNCHANGED up
  /\ Confirm
  /\ Continue(0, file_count')
  /\ UNCHANGED <<clientVars, backlog, client_socket, active_sd, readfds, count,
                 file_name, file_size, downloaded, at_end, disk>>

(* Fault: the name of the first file is kept for the others. *)
ReadNameOnce ==
  /\ spc = "name"
  /\ up[active_sd] # <<>>
  /\ file_name' = IF count = 0 THEN Files[active_sd][1].name ELSE file_name
  /\ up' = [up EXCEPT ![active_sd] = Tail(@)]
  /\ Confirm
  /\ spc' = "size"
  /\ UNCHANGED <<clientVars, backlog, client_socket, active_sd, readfds, file_count,
                 count, file_size, downloaded, at_end, cwd, disk>>

(* A name: the buffer keeps the one read before when the connection ended. *)
ReadName ==
  /\ spc = "name"
  /\ \/ /\ up[active_sd] # <<>>
        /\ LET m == Head(up[active_sd])
           IN  file_name' = IF m.what = "name" THEN Files[active_sd][m.file].name ELSE ""
        /\ up' = [up EXCEPT ![active_sd] = Tail(@)]
     \/ /\ AtEnd
        /\ IF count = 0 THEN file_name' \in Names ELSE UNCHANGED file_name
        /\ UNCHANGED up
  /\ Confirm
  /\ spc' = "size"
  /\ UNCHANGED <<clientVars, backlog, client_socket, active_sd, readfds, file_count,
                 count, file_size, downloaded, at_end, cwd, disk>>

Store(key, content) ==
  disk' = [k \in DOMAIN disk \cup {key} |-> IF k = key THEN content ELSE disk[k]]

Stored == <<cwd, file_name>>

(* A size, which the buffer keeps as well, then fopen(file_name, "wb").  The *)
(* loop that reads the content is entered unless an earlier read ended.      *)
ReadSize ==
  /\ spc = "size"
  /\ \/ \E n \in 1..Len(up[active_sd]) :
          LET m == Head(up[active_sd])
          IN  /\ file_size' = IF m.what = "size" THEN m.part ELSE 0
              /\ up' = [up EXCEPT ![active_sd] = SubSeq(@, n + 1, Len(@))]
     \/ /\ AtEnd
        /\ file_size' \in {file_size} \cup {0}
        /\ UNCHANGED up
  /\ Confirm
  /\ Store(Stored, <<>>)
  /\ IF at_end
     THEN count' = count + 1 /\ Continue(count + 1, file_count)
     ELSE spc' = "content" /\ UNCHANGED <<count, cwd>>
  /\ UNCHANGED <<clientVars, backlog, client_socket, active_sd, readfds, file_count,
                 file_name, downloaded, at_end>>

CloseFile ==
  /\ downloaded' = 0
  /\ count' = count + 1
  /\ Continue(count + 1, file_count)

(* Up to four chunks are read, whatever was written. *)
ReadContent ==
  /\ spc = "content"
  /\ \E n \in 1..Len(up[active_sd]) :
       /\ n <= 4
       /\ Store(Stored, disk[Stored] \o SubSeq(up[active_sd], 1, n))
       /\ up' = [up EXCEPT ![active_sd] = SubSeq(@, n + 1, Len(@))]
       /\ IF downloaded + n = file_size
          THEN Confirm /\ CloseFile
          ELSE /\ downloaded' = downloaded + n
               /\ UNCHANGED <<spc, count, cwd, down, broken>>
  /\ UNCHANGED <<clientVars, backlog, client_socket, active_sd, readfds, file_count,
                 file_name, file_size, at_end>>

(* read() is 0, or -1 on a reset connection, which fwrite() takes for a    *)
(* length: what follows the buffer may be written to the file.             *)
ContentEnds ==
  /\ spc = "content"
  /\ AtEnd
  /\ \/ UNCHANGED disk
     \/ /\ active_sd \in broken
        /\ Store(Stored, Append(disk[Stored], [what |-> "junk", file |-> 0, part |-> 0]))
  /\ IF downloaded = file_size THEN Confirm ELSE UNCHANGED <<down, broken>>
  /\ at_end' = TRUE
  /\ CloseFile
  /\ UNCHANGED <<clientVars, up, backlog, client_socket, active_sd, readfds, file_count,
                 file_name, file_size>>

(* Fault: an entry whose client has left is never freed. *)
SweepKeepsEntries ==
  /\ spc = "sweep"
  /\ spc' = "select"
  /\ UNCHANGED <<clientVars, network, client_socket, active_sd, readfds, locals, cwd,
                 disk>>

(* The entries that select() found readable: closed, or their data is read *)
(* and thrown away.                                                        *)
Sweep ==
  /\ spc = "sweep"
  /\ client_socket' = [i \in 1..Slots |->
        IF client_socket[i] \in readfds /\ up[client_socket[i]] = <<>>
        THEN None ELSE client_socket[i]]
  /\ up' = [c \in Clients |->
        IF c \in readfds /\ \E i \in 1..Slots : client_socket[i] = c THEN <<>> ELSE up[c]]
  /\ spc' = "select"
  /\ UNCHANGED <<clientVars, down, backlog, broken, active_sd, readfds, locals, cwd,
                 disk>>

(* SIGPIPE on a connection that was reset, a crash on a length of -1, or on *)
(* a name that was never read.                                              *)
ServerDies ==
  /\ \/ spc \in {"count", "name", "size", "content"} /\ active_sd \in broken
     \/ spc = "name" /\ count = 0 /\ AtEnd
  /\ spc' = "dead"
  /\ UNCHANGED <<clientVars, network, client_socket, active_sd, readfds, locals, cwd,
                 disk>>

KillServer ==
  /\ ServerKillable /\ spc # "dead"
  /\ spc' = "dead"
  /\ UNCHANGED <<clientVars, network, client_socket, active_sd, readfds, locals, cwd, disk>>

ServerStep ==
  \/ Select \/ Accept \/ ReadCount \/ ReadName \/ ReadSize
  \/ ReadContent \/ ContentEnds \/ Sweep \/ ServerDies

Next ==
  \/ \E c \in Clients : ClientStep(c)
  \/ ServerStep
  \/ \E c \in Clients : KillClient(c)
  \/ KillServer

Spec == Init /\ [][Next]_vars

(* Every program is scheduled again and again; nobody has to be killed. *)
FairSpec == /\ Spec
            /\ \A c \in Clients : WF_vars(ClientStep(c))
            /\ WF_vars(ServerStep)

-----------------------------------------------------------------------------
(* What the transfer promises *)

Home(c) == Directory \o <<c>>

StoredWhole(c, i) ==
  LET key == <<Home(c), Files[c][i].name>>
  IN  key \in DOMAIN disk /\ disk[key] = Content(c, i)

(* What the promises suppose of the constants.  The directory is not       *)
(* relative: such a one is never left.  The table has an entry for each    *)
(* client.  Names are short and differ, and only the last file is empty:   *)
(* the server takes the name after an empty file for its content.          *)
Orderly ==
  /\ Directory = <<>> \/ Absolute
  /\ IsFiniteSet(Clients) /\ Cardinality(Clients) <= Slots
  /\ \A c \in Clients : \A i \in 1..Len(Files[c]) :
       /\ ~Files[c][i].long
       /\ i < Len(Files[c]) => Files[c][i].size > 0
       /\ \A j \in 1..Len(Files[c]) : Files[c][i].name = Files[c][j].name => i = j

(* A file that a client reports as received is in that client's directory, *)
(* whole, and stays there until the client sends the same name again.  A   *)
(* report made to a server that has died means nothing: see ReadReply.     *)
ConfirmedIsStored ==
  spc # "dead" =>
    \A c \in Clients : cpc[c] # "killed" =>
      \A i \in 1..confirmed[c] : Files[c][i].size > 0 => StoredWhole(c, i)

(* A client's directory holds beginnings of its own files and no other     *)
(* bytes, whoever was killed when, but for what a length of -1 appends to  *)
(* the end of one.                                                         *)
Genuine(data) ==
  IF data # <<>> /\ data[Len(data)].what = "junk" THEN Len(data) - 1 ELSE Len(data)

BeginningOf(c, i, data) ==
  /\ Genuine(data) <= Files[c][i].size
  /\ \A k \in 1..Genuine(data) : data[k] = Content(c, i)[k]

StoredIsPrefix ==
  \A key \in DOMAIN disk :
    \E c \in Clients :
      /\ key[1] = Home(c)
      /\ \/ Genuine(disk[key]) = 0
         \/ \E i \in 1..Len(Files[c]) : /\ key[2] = Files[c][i].name
                                        /\ BeginningOf(c, i, disk[key])

(* What the disk holds is what was reported, and nothing that was not sent. *)
DiskIsTrue == ConfirmedIsStored /\ StoredIsPrefix

(* The two ends are at the same place of the protocol: all that is on its  *)
(* way to the server is what it is about to read, of the file it is at.    *)
InStep ==
  spc \in {"name", "size", "content"} =>
    \A k \in 1..Len(up[active_sd]) :
      LET m == up[active_sd][k]
      IN  m.what = (IF spc = "content" THEN "data" ELSE spc) /\ m.file = count + 1

(* A client that waits for a reply which is not on its way is the one the  *)
(* server is reading from: nobody else is served in between, and nobody    *)
(* that was accepted is left waiting.                                      *)
WaitingIsServed ==
  \A c \in Clients :
    /\ cpc[c] \in {"count", "name", "size", "content", "confirm"} /\ down[c] = <<>>
    /\ spc # "dead"
    => active_sd = c /\ spc \in {"count", "name", "size", "content"}

ServedInStep == InStep /\ WaitingIsServed

(* As long as the server lives every client that is not killed gets its    *)
(* files across and leaves, whoever else is killed; and once the server    *)
(* has died nobody waits for it: the others end, or fail to connect.       *)
AllServed ==
  \A c \in Clients :
    <>(\/ cpc[c] = "closed" /\ \A i \in 1..Len(Files[c]) : StoredWhole(c, i)
       \/ cpc[c] = "killed"
       \/ spc = "dead" /\ (cpc[c] = "start" \/ Gone(c)))

(* The table gets its entries back as long as the server runs. *)
SlotsReleased ==
  \A c \in Clients : Gone(c) ~> spc = "dead" \/ \A i \in 1..Slots : client_socket[i] # c

(* What brings the server down by itself is only a client that was killed  *)
(* when the server was serving it, or before: never one that has left, nor *)
(* one that was killed when it was no longer served.                       *)
DiesOfTheKilled ==
  [][ServerDies => cpc[active_sd] = "killed" /\ confirmed[active_sd] < Len(Files[active_sd])]_vars

(* Clients come and go: each is served and leaves its place free for as    *)
(* long as the server lives, which no client that comes and goes ends.     *)
ComeAndGo == AllServed /\ SlotsReleased /\ DiesOfTheKilled
=============================================================================
