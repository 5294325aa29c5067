---------------------------- MODULE GetNextLine ----------------------------
(***************************************************************************)
(* libft's get_next_line, the one function of the library that keeps state *)
(* from call to call: a static pointer into a list of descriptors, each    *)
(* with the text read ahead of the lines that were handed out.  Texts hold *)
(* no zero bytes.  The list is linear and only grows at its end, so that a *)
(* pointer is a position and what is reachable is what comes behind it.    *)
(***************************************************************************)
EXTENDS Integers, Sequences, FiniteSets, SequencesExt

CONSTANTS
  Texts,      \* the texts of the descriptors there are
  NewLine,
  Refused,    \* descriptors that cannot be read
  BuffSize,   \* BUFF_SIZE
  MaxCalls,   \* bound: calls of the caller
  MaxCuts     \* bound: reads that find nothing, or fail, before the end

ASSUME GetNextLineAssumption ==
  /\ BuffSize \in Nat \ {0} /\ MaxCalls \in Nat /\ MaxCuts \in Nat
  /\ \A t \in Texts :
       /\ t = [d \in DOMAIN t |-> t[d]] /\ DOMAIN t \cap Refused = {}
       /\ \A d \in DOMAIN t : t[d] \in Seq(Range(t[d]))

VARIABLES
  nodes,        \* the list: [fd, stock, heap, given]; given is what stock gave out
  list, begin,  \* the static pointer, 0 for NULL, and where it was before the call
  at,           \* the node find returns
  unread,       \* of each descriptor
  texts,        \* of each descriptor, from the start
  pc,           \* "idle", "find", "answer" or "abort"
  last,         \* the answer to the last call
  calls, cuts, cut

vars == <<nodes, list, begin, at, unread, texts, pc, last, calls, cuts, cut>>

NoAnswer == [fd |-> -1, ret |-> -1, line |-> <<>>]

Init ==
  /\ texts \in Texts /\ unread = texts
  /\ nodes = <<>> /\ list = 0 /\ begin = 0 /\ at = 0
  /\ pc = "idle" /\ last = NoAnswer
  /\ calls = 0 /\ cuts = 0 /\ cut = FALSE

Calling == pc = "idle" /\ calls < MaxCalls /\ calls' = calls + 1

\* The descriptor is negative, or a read of nothing fails.
Refuse(fd) ==
  /\ Calling
  /\ last' = [fd |-> fd, ret |-> -1, line |-> <<>>]
  /\ UNCHANGED <<nodes, list, begin, at, unread, texts, pc, cuts, cut>>

\* Mutant: the list is searched for one node only.
FindFirst(fd, from) == {m \in {from} : m \in 1..Len(nodes) /\ nodes[m].fd = fd}

\* The nodes of fd from a place on; the code takes the first.
Find(fd, from) == {m \in from..Len(nodes) : nodes[m].fd = fd}

\* get_next_line up to the loop of find: the node is found from the static pointer
\* on, or added at the end.
Call(fd) ==
  LET head  == IF list = 0 THEN 1 ELSE list
      found == Find(fd, head) IN
  /\ Calling
  /\ begin' = head
  /\ at' = IF found = {} THEN Len(nodes) + 1 ELSE CHOOSE m \in found : \A k \in found : m <= k
  /\ nodes' = IF found = {} THEN Append(nodes, [fd |-> fd, stock |-> <<>>, heap |-> TRUE, given |-> <<>>])
              ELSE nodes
  /\ list' = at' /\ pc' = "find"
  /\ UNCHANGED <<unread, texts, last, cuts, cut>>

Node == nodes[at]

\* One turn of find's loop; a newline in the buffer is the last of it.
Read(n) ==
  LET buff == SubSeq(unread[Node.fd], 1, n) IN
  /\ pc = "find" /\ Node.heap /\ n <= Len(unread[Node.fd])
  /\ nodes' = [nodes EXCEPT ![at].stock = @ \o buff]
  /\ unread' = [unread EXCEPT ![Node.fd] = SubSeq(@, n + 1, Len(@))]
  /\ pc' = IF Contains(buff, NewLine) THEN "answer" ELSE "find"
  /\ UNCHANGED <<list, begin, at, texts, last, calls, cuts, cut>>

\* The same where stock is the literal "", which is freed.
ReadLiteral ==
  /\ pc = "find" /\ ~Node.heap /\ unread[Node.fd] # <<>>
  /\ pc' = "abort"
  /\ UNCHANGED <<nodes, list, begin, at, unread, texts, last, calls, cuts, cut>>

\* Mutant: the loop goes on while read does not fail.
ReadEndAgain ==
  /\ pc = "find" /\ unread[Node.fd] = <<>>
  /\ UNCHANGED vars

\* read returns 0 at the end.
ReadEnd ==
  /\ pc = "find" /\ unread[Node.fd] = <<>>
  /\ pc' = "answer"
  /\ UNCHANGED <<nodes, list, begin, at, unread, texts, last, calls, cuts, cut>>

\* read fails, or returns 0 at what is not the end: a terminal, a file that grows.
ReadCut ==
  /\ pc = "find" /\ unread[Node.fd] # <<>> /\ cuts < MaxCuts
  /\ cuts' = cuts + 1 /\ cut' = TRUE /\ pc' = "answer"
  /\ UNCHANGED <<nodes, list, begin, at, unread, texts, last, calls>>

Answers(ret, line) ==
  /\ last' = [fd |-> Node.fd, ret |-> ret, line |-> line]
  /\ pc' = "idle" /\ cut' = FALSE
  /\ UNCHANGED <<begin, at, unread, texts, calls, cuts>>

\* The static pointer stays at the node, and the nodes before it are lost.
AnswerEnd ==
  /\ pc = "answer" /\ Node.stock = <<>>
  /\ Answers(0, <<>>) /\ UNCHANGED <<list, nodes>>

\* ft_strcdup, ft_strchr: up to the first newline and from behind it.
LineEnd == SelectInSeq(Node.stock, LAMBDA c : c = NewLine)

\* Mutant: the rest begins with the newline.
RestFrom == LineEnd

Rest == LineEnd + 1

AnswerLine ==
  /\ pc = "answer" /\ Contains(Node.stock, NewLine)
  /\ Answers(1, SubSeq(Node.stock, 1, LineEnd - 1)) /\ list' = begin
  /\ nodes' = [nodes EXCEPT ![at].stock = SubSeq(@, Rest, Len(@)), ![at].heap = TRUE,
                            ![at].given = @ \o SubSeq(Node.stock, 1, LineEnd)]

\* The last line, without a newline: stock is a literal from now on.
AnswerRest ==
  /\ pc = "answer" /\ Node.stock # <<>> /\ ~Contains(Node.stock, NewLine)
  /\ Answers(1, Node.stock) /\ list' = begin
  /\ nodes' = [nodes EXCEPT ![at].stock = <<>>, ![at].heap = FALSE,
                            ![at].given = @ \o Node.stock]

\* The caller is done, or the program was ended.
Finished == (pc = "abort" \/ (pc = "idle" /\ calls = MaxCalls)) /\ UNCHANGED vars

\* What the function does once it is called.
Work == \/ \E n \in 1..BuffSize : Read(n)
        \/ ReadLiteral \/ ReadEnd \/ ReadCut
        \/ AnswerEnd \/ AnswerLine \/ AnswerRest

Next ==
  \/ \E fd \in DOMAIN texts : Call(fd)
  \/ \E fd \in Refused : Refuse(fd)
  \/ Work \/ Finished

\* Fairness: a function that was called goes on; nobody has to call it.
Spec == Init /\ [][Next]_vars /\ WF_vars(Work)

-----------------------------------------------------------------------------
First    == IF pc = "idle" THEN list ELSE begin
Lost(m)  == m < First
Taken(d) ==
  FlattenSeq([m \in 1..Len(nodes) |-> IF nodes[m].fd = d THEN nodes[m].given \o nodes[m].stock ELSE <<>>])
StockOf(d) ==
  FlattenSeq([m \in 1..Len(nodes) |-> IF nodes[m].fd = d /\ ~Lost(m) THEN nodes[m].stock ELSE <<>>])

\* No byte is dropped or doubled, in any order of calls, however many bytes a read
\* brings: the text of a descriptor is what its nodes gave out and hold, one node
\* after the other, and what is unread.  Of its nodes the static pointer reaches one
\* at most, and nodes are lost only before a descriptor that is at its end.
Accounted ==
  /\ \A d \in DOMAIN texts : texts[d] = Taken(d) \o unread[d]
  /\ \A m, k \in 1..Len(nodes) : nodes[m].fd = nodes[k].fd /\ m < k => Lost(m)
  /\ First > 1 /\ cuts = 0 => StockOf(nodes[First].fd) \o unread[nodes[First].fd] = <<>>

\* Each call hands out the next line, whole, or the end at the end, for any
\* alternation of descriptors; only an end may take text of others with it.
Reader == INSTANCE LineReader WITH left <- [d \in DOMAIN texts |-> StockOf(d) \o unread[d]]
Implements == Reader!Spec

\* A call is answered, however short the reads are.  It ends the program, which
\* frees a literal, only if a read found nothing before the end of the text.
Answered == pc = "find" ~> pc = "idle" \/ (pc = "abort" /\ cuts > 0)
=============================================================================
