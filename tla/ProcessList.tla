---------------------------- MODULE ProcessList ----------------------------
(***************************************************************************)
(* The process lister of COMP8005 assignment 4: ps gives the numbers of    *)
(* the processes, and then /proc is read for each, piece by piece, while   *)
(* processes go on ending and numbers go on being given to new ones.       *)
(***************************************************************************)
EXTENDS Naturals, SequencesExt, FiniteSets

(***************************************************************************)
(* linked_list.c of COMP8005 assignment 4: singly linked lists behind a    *)
(* header node and a count.  A list is a record: the count, the link of    *)
(* the header, and the nodes that malloc gave it and nobody freed, by      *)
(* address.  The process list and the descriptor list are two copies of    *)
(* the same functions on two types of node.                                *)
(***************************************************************************)

NULL == 0

createLinkedList   == [currentElementCount |-> 0, headerLink |-> NULL, nodes |-> << >>]
createFDLinkedList == createLinkedList

(* The node that a number of links lead to from the header, which is       *)
(* number 0 and has no address of its own.                                 *)
NodeAfter(list, links) ==
  LET at[n \in 0 .. links] ==
        IF n = 0 THEN NULL
        ELSE IF at[n - 1] = NULL THEN list.headerLink ELSE list.nodes[at[n - 1]].pLink
  IN at[links]
LinkOf(list, address) == IF address = NULL THEN list.headerLink ELSE list.nodes[address].pLink

(* The address of a new node: any that is not in use.                      *)
Fresh(list) == CHOOSE a \in 1 .. Cardinality(DOMAIN list.nodes) + 1 : a \notin DOMAIN list.nodes

WithNode(nodes, address, node) ==
  [a \in DOMAIN nodes \cup {address} |-> IF a = address THEN node ELSE nodes[a]]
SetLink(list, address, link) ==
  IF address = NULL THEN [list EXCEPT !.headerLink = link]
  ELSE [list EXCEPT !.nodes[address].pLink = link]

(* Fault: one link too few is followed to the place.                       *)
InsertNodeEarly(list, position, element) ==
  IF position > list.currentElementCount THEN list
  ELSE LET pPreNode == NodeAfter(list, IF position = 0 THEN 0 ELSE position - 1)
           pNewNode == Fresh(list)
           filled   == [list EXCEPT
                          !.nodes = WithNode(@, pNewNode,
                                      [element |-> element, pLink |-> LinkOf(list, pPreNode)]),
                          !.currentElementCount = @ + 1]
       IN SetLink(filled, pPreNode, pNewNode)

(* A new node behind the first position nodes; a position beyond the end   *)
(* changes nothing.                                                        *)
InsertNode(list, position, element) ==
  IF position > list.currentElementCount THEN list
  ELSE LET pPreNode == NodeAfter(list, position)
           pNewNode == Fresh(list)
           filled   == [list EXCEPT
                          !.nodes = WithNode(@, pNewNode,
                                      [element |-> element, pLink |-> LinkOf(list, pPreNode)]),
                          !.currentElementCount = @ + 1]
       IN SetLink(filled, pPreNode, pNewNode)

(* The node is unlinked and freed.                                         *)
RemoveNode(list, position) ==
  IF position >= list.currentElementCount THEN list
  ELSE LET pPreNode == NodeAfter(list, position)
           pDelNode == LinkOf(list, pPreNode)
           unlinked == SetLink(list, pPreNode, list.nodes[pDelNode].pLink)
       IN [unlinked EXCEPT
             !.nodes = [a \in DOMAIN @ \ {pDelNode} |-> @[a]],
             !.currentElementCount = @ - 1]

addLLElement(pList, position, element)   == InsertNode(pList, position, element)
addLLFDElement(pList, position, element) == InsertNode(pList, position, element)
removeLLElement(pList, position)   == RemoveNode(pList, position)
removeLLFDElement(pList, position) == RemoveNode(pList, position)

(* The address of the node at a position, NULL beyond the end.             *)
getLLElement(pList, position) ==
  IF position < pList.currentElementCount THEN NodeAfter(pList, position + 1) ELSE NULL
getLLFDElement(pList, position) ==
  IF position < pList.currentElementCount THEN NodeAfter(pList, position + 1) ELSE NULL

(* clear removes the first node, and only that.                            *)
clearLinkedList(pList) ==
  IF pList.currentElementCount > 0 THEN removeLLElement(pList, 0) ELSE pList
clearFDLinkedList(pList) ==
  IF pList.currentElementCount > 0 THEN removeLLFDElement(pList, 0) ELSE pList

getLinkedListLength(pList)   == pList.currentElementCount
getFDLinkedListLength(pList) == pList.currentElementCount
isEmpty(pList) == pList.currentElementCount = 0

(* The elements in order, as a reader of the list meets them.              *)
Elements(pList) ==
  [n \in 1 .. pList.currentElementCount |-> pList.nodes[NodeAfter(pList, n)].element]

-----------------------------------------------------------------------------
(* A list in use: any caller, any order of calls.                         *)

CONSTANTS ListElements, ListBound

VARIABLES list, contents   \* a list, and the sequence it stands for
listVars == <<list, contents>>

ListInit == list = createLinkedList /\ contents = << >>

ListAdd(position, e) ==
  /\ Cardinality(DOMAIN list.nodes) < ListBound
  /\ list' = addLLElement(list, position, e)
  /\ contents' = IF position <= Len(contents) THEN InsertAt(contents, position + 1, e) ELSE contents
ListRemove(position) ==
  /\ list' = removeLLElement(list, position)
  /\ contents' = IF position < Len(contents) THEN RemoveAt(contents, position + 1) ELSE contents
ListClear ==
  /\ list' = clearLinkedList(list)
  /\ contents' = IF contents = << >> THEN contents ELSE Tail(contents)

ListNext ==
  \/ \E position \in 0 .. ListBound, e \in ListElements : ListAdd(position, e)
  \/ \E position \in 0 .. ListBound : ListRemove(position)
  \/ ListClear

(* The links from the header lead through every node that is allocated and *)
(* end, and what they lead through are the elements in the order in which  *)
(* the calls put them.                                                     *)
ListIsSequence ==
  /\ Elements(list) = contents
  /\ {NodeAfter(list, n) : n \in 1 .. Len(contents)} = DOMAIN list.nodes
  /\ LinkOf(list, NodeAfter(list, Len(contents))) = NULL
  /\ \A n \in 0 .. ListBound : (getLLElement(list, n) = NULL) = (n >= Len(contents))

-----------------------------------------------------------------------------
(* The lister.                                                             *)

CONSTANTS
  Pids,         \* numbers of processes
  Helpers,      \* those of the pipeline that runs ps: gone once it is read
  Programs,     \* what a process may be: ppid, comm, cmdline and fds at once
  FdsOf,        \* open descriptors of a program: a sequence of [fd, socket]
  LsofOf,       \* the lines lsof prints of a program: a sequence of [fd, words]
  MaxChanges    \* bound: how often a process starts, changes or ends during the run

ASSUME ProcessAssumption ==
  /\ Pids \subseteq Nat \ {0} /\ Helpers \subseteq Pids
  /\ MaxChanges \in Nat

VARIABLES
  world,        \* the program a process runs, or Gone
  changes,      \* how often the world changed
  phase,        \* "ps", "open", "ppid", "comm", "cmdline", "fd", "lsof", "delete", "exit"
  proc_list,    \* the list of processes
  index,        \* i of the loop
  page,         \* what was printed of the process at hand
  lines,        \* of ls: the descriptors that are still to be looked up
  fd_list,      \* the list of its descriptors
  pages,        \* what was printed of the processes before
  lost,         \* nodes of lists that were left by the program
  turn          \* history: what the number at hand stood for since its turn began

fdVars      == <<lines, fd_list>>
processVars == <<world, changes, phase, proc_list, index, page, fdVars, pages, lost, turn>>

Gone == "gone"
NoPage == [pid |-> 0, ppid |-> Gone, comm |-> Gone, cmdline |-> Gone]
NoProcess == [pid |-> 0, ppid |-> Gone, comm |-> Gone, cmdline |-> Gone]

ProcessInit ==
  /\ world \in {w \in [Pids -> Programs \cup {Gone}] : \A p \in Helpers : w[p] # Gone}
  /\ changes = 0 /\ phase = "ps" /\ proc_list = createLinkedList
  /\ index = 0 /\ page = NoPage /\ pages = << >> /\ lost = 0
  /\ lines = << >> /\ fd_list = createFDLinkedList /\ turn = << >>

-----------------------------------------------------------------------------
(* The system.                                                             *)

Current == IF phase \in {"ppid", "comm", "cmdline", "fd", "lsof"} THEN page.pid ELSE 0

(* A process ends, its number is given to a new one, or it becomes another *)
(* program, by exec or in the care of another parent.                      *)
WorldChanges(p, program) ==
  /\ phase \notin {"ps", "exit"} /\ changes < MaxChanges
  /\ world[p] # program
  /\ world' = [world EXCEPT ![p] = program]
  /\ changes' = changes + 1
  /\ turn' = IF p = Current THEN Append(turn, program) ELSE turn
  /\ UNCHANGED <<phase, proc_list, index, page, fdVars, pages, lost>>

-----------------------------------------------------------------------------
(* The program.                                                            *)

(* save_processes: the numbers in the order of ps, each added behind the   *)
(* others.  The processes of the pipeline itself are among them, and gone  *)
(* after pclose.                                                           *)
save_pid_to_linked_list(l, pid, n) == addLLElement(l, n, [NoProcess EXCEPT !.pid = pid])

save_processes ==
  LET alive == SetToSortSeq({p \in Pids : world[p] # Gone}, <)
      add(l, n) == save_pid_to_linked_list(l, alive[n], n - 1)
  IN /\ phase = "ps"
     /\ proc_list' = FoldLeft(add, proc_list, [n \in DOMAIN alive |-> n])
     /\ world' = [p \in Pids |-> IF p \in Helpers THEN Gone ELSE world[p]]
     /\ phase' = "open"
     /\ UNCHANGED <<changes, index, page, fdVars, pages, lost, turn>>

NodeAt(n) == proc_list.nodes[getLLElement(proc_list, n)].element
Save(field, value) ==
  proc_list' = [proc_list EXCEPT !.nodes[getLLElement(proc_list, index)].element[field] = value]

(* The loop of process_directory_processing: it ends at the end of the     *)
(* list, and at the first directory that does not open.                    *)
open_directory ==
  /\ phase = "open"
  /\ IF index < proc_list.currentElementCount /\ world[NodeAt(index).pid] # Gone
     THEN /\ phase' = "ppid"
          /\ page' = [NoPage EXCEPT !.pid = NodeAt(index).pid]
          /\ turn' = <<world[NodeAt(index).pid]>>
     ELSE phase' = "delete" /\ UNCHANGED <<page, turn>>
  /\ UNCHANGED <<world, changes, proc_list, index, fdVars, pages, lost>>

(* A file of the directory is read, if it is there, into the node and      *)
(* printed from it.                                                        *)
ReadFile(field, next) ==
  /\ phase = field /\ phase' = next
  /\ \E value \in {IF world[page.pid] # Gone THEN world[page.pid] ELSE NodeAt(index)[field]} :
       Save(field, value) /\ page' = [page EXCEPT ![field] = value]
  /\ UNCHANGED <<world, changes, index, fdVars, pages, lost, turn>>
save_ppid_to_linked_list    == ReadFile("ppid", "comm")
save_comm_to_linked_list    == ReadFile("comm", "cmdline")
save_cmdline_to_linked_list == ReadFile("cmdline", "fd")

(* What lsof tells of a socket: its lines are searched for the number with *)
(* a 'u' behind it, which finds numbers that end in the same digits too,   *)
(* and each word that is looked for overwrites what was found before.      *)
Keywords == <<"TCP", "UDP", "protocol", "KOBJECT_UEVENT", "ROUTE", "GENERIC", "type">>
EndsIn(number, fd) == number % (IF fd < 10 THEN 10 ELSE 100) = fd
find_fd_port_number(fd, program) ==
  LET found(info, line) ==
        LET words == SelectSeq(Keywords, LAMBDA w : w \in line.words)
        IN IF EndsIn(line.fd, fd) /\ words # << >> THEN <<line.fd, Last(words)>> ELSE info
  IN IF program = Gone THEN << >> ELSE FoldLeft(found, << >>, LsofOf[program])

(* save_fd_to_linked_list: ls names the descriptors of the process.        *)
Descriptors(program) == IF program = Gone THEN << >> ELSE FdsOf[program]
ListDescriptors ==
  /\ phase = "fd" /\ phase' = "lsof"
  /\ lines' = Descriptors(world[page.pid])
  /\ fd_list' = createFDLinkedList
  /\ UNCHANGED <<world, changes, proc_list, index, page, pages, lost, turn>>

(* One line of it: a socket is looked up by an lsof of its own.            *)
AddDescriptor ==
  /\ phase = "lsof" /\ lines # << >>
  /\ LET line == Head(lines)
         info == IF line.socket THEN find_fd_port_number(line.fd, world[page.pid])
                 ELSE <<line.fd, "file">>
     IN fd_list' = addLLFDElement(fd_list, fd_list.currentElementCount,
                                  [fd |-> line.fd, fd_info |-> info])
  /\ lines' = Tail(lines)
  /\ UNCHANGED <<world, changes, phase, proc_list, index, page, pages, lost, turn>>

(* The list is printed and deleted, but for the nodes that clear leaves.   *)
PrintDescriptors ==
  /\ phase = "lsof" /\ lines = << >> /\ phase' = "open"
  /\ pages' = Append(pages,
       [pid |-> page.pid, ppid |-> page.ppid, comm |-> page.comm, cmdline |-> page.cmdline,
        fds |-> Elements(fd_list), turn |-> turn])
  /\ lost' = lost + Cardinality(DOMAIN clearFDLinkedList(fd_list).nodes)
  /\ index' = index + 1
  /\ UNCHANGED <<world, changes, proc_list, page, fdVars, turn>>

save_fd_to_linked_list == ListDescriptors \/ AddDescriptor \/ PrintDescriptors

(* deleteLinkedList, and the end.                                          *)
deleteLinkedList ==
  /\ phase = "delete" /\ phase' = "exit"
  /\ lost' = lost + Cardinality(DOMAIN clearLinkedList(proc_list).nodes)
  /\ UNCHANGED <<world, changes, proc_list, index, page, fdVars, pages, turn>>

ProcessNext ==
  \/ \E p \in Pids, program \in Programs \cup {Gone} : WorldChanges(p, program)
  \/ save_processes \/ open_directory \/ save_ppid_to_linked_list \/ save_comm_to_linked_list
  \/ save_cmdline_to_linked_list \/ save_fd_to_linked_list \/ deleteLinkedList

-----------------------------------------------------------------------------

ProcessTypeOK ==
  /\ world \in [Pids -> Programs \cup {Gone}] /\ changes \in 0 .. MaxChanges
  /\ index \in 0 .. proc_list.currentElementCount
  /\ Cardinality(DOMAIN proc_list.nodes) = proc_list.currentElementCount

(* What a socket's line tells is its own, unless its number is the end of *)
(* another number.                                                         *)
OwnInfo(p) ==
  \A n \in DOMAIN p.fds :
    LET fd == p.fds[n].fd
        alone == \A program \in Range(p.turn) \ {Gone} :
                   \A line \in Range(LsofOf[program]) : EndsIn(line.fd, fd) => line.fd = fd
    IN alone => p.fds[n].fd_info = << >> \/ p.fds[n].fd_info[1] = fd

(* A page may be of several processes, or of one that has become another   *)
(* meanwhile.  But each piece of it is what the number stood for at some   *)
(* moment of its turn, later pieces being of later moments: nothing is of  *)
(* the time before, of another number, or older than what is above it.  Of *)
(* a process that nothing happens to in its turn, the whole page is true.  *)
PagesAreTrue ==
  \A p \in Range(pages) :
    /\ \E ppid, comm, cmdline, fd \in DOMAIN p.turn :
         /\ ppid <= comm /\ comm <= cmdline /\ cmdline <= fd
         /\ <<p.ppid, p.comm, p.cmdline>> = <<p.turn[ppid], p.turn[comm], p.turn[cmdline]>>
         /\ LET open == Descriptors(p.turn[fd])
            IN /\ Len(p.fds) = Len(open)
               /\ \A n \in DOMAIN open :
                    /\ p.fds[n].fd = open[n].fd
                    /\ open[n].socket => \E lsof \in fd .. Len(p.turn) :
                         p.fds[n].fd_info = find_fd_port_number(open[n].fd, p.turn[lsof])
    /\ OwnInfo(p)

(* The processes of ps are printed in its order and each once.  When none  *)
(* starts, changes or ends, they are those that come before the first of   *)
(* the pipeline of ps itself, which is gone by then.                       *)
PrintedInOrder ==
  /\ \A n \in DOMAIN pages : pages[n].pid = NodeAt(n - 1).pid
  /\ Len(pages) = index
  /\ phase = "exit" /\ changes = 0 =>
       \A n \in 0 .. proc_list.currentElementCount - 1 :
         (n < index) = (\A m \in 0 .. n : NodeAt(m).pid \notin Helpers)

=============================================================================
