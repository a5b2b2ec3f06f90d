-------------------------- MODULE WorkInteractions --------------------------
(***************************************************************************)
(* Questions to the user: the table work_interaction of interactions.py,   *)
(* the ask_user tool and the reply handler of clarification.py.            *)
(*                                                                         *)
(* The tool creates the question under the idempotency key of its call,    *)
(* polls until it is resolved and gives up after a timeout; the user's     *)
(* reply, the timeout, a Stop of the run and a crash of the host race on   *)
(* the row, each with the version it read before.                          *)
(***************************************************************************)
EXTENDS Naturals

CONSTANTS
  Question,     \* idempotency keys of ask_user calls
  Answer,       \* replies the user may submit
  None,         \* no response, no result, no reply in progress
  MaxCrashes    \* bound: host crashes

ASSUME InteractionsAssumption == MaxCrashes \in Nat /\ None \notin Answer

INTERACTION_TERMINAL_STATES == {"answered", "skipped", "timed_out", "cancelled"}
INTERACTION_STATES == {"open"} \cup INTERACTION_TERMINAL_STATES

VARIABLES
  row,      \* [Question -> Interaction]: table work_interaction
  tool,     \* [Question -> Tool]: the ask_user call of the question
  reply,    \* the resolve_response call in progress, or None
  told,     \* history: replies the user was told were accepted
  crashes,
  deserted, \* history: questions whose call died with its host, not asked again
  late      \* timeouts [question, version] a Stop left running in their threads

intvars == <<row, tool, reply, told, crashes, deserted, late>>

Interaction == [status: INTERACTION_STATES \cup {"absent"}, version: Nat,
        response: Answer \cup {None}]

(* Where the call stands: polling, seeing the deadline with the version it *)
(* read, in its finally block before and after the read of the row; what   *)
(* the caller got is in result.                                            *)
Tool == [pc: {"idle", "polling", "expired", "closing", "retiring", "done"},
         version: Nat, result: Interaction \cup {None}]

Reply == [question: Question, version: Nat, status: {"answered", "skipped"},
          response: Answer \cup {None}]

Idle == [pc |-> "idle", version |-> 0, result |-> None]
terminal(q) == row[q].status \in INTERACTION_TERMINAL_STATES

InteractionsInit ==
  /\ row = [q \in Question |-> [status |-> "absent", version |-> 0, response |-> None]]
  /\ tool = [q \in Question |-> Idle]
  /\ reply = None
  /\ told = {}
  /\ crashes = 0 /\ deserted = {} /\ late = {}

-----------------------------------------------------------------------------
(* resolve: first writer wins, fenced by the version the caller read. *)
Resolvable(q, version) == row[q].status = "open" /\ row[q].version = version
Resolved(q, status, response) ==
  row' = [row EXCEPT ![q] = [status |-> status, version |-> @.version + 1,
                             response |-> response]]

resolve(q, status, response, version) ==
  /\ Resolvable(q, version)
  /\ Resolved(q, status, response)

Goes(q, pc) == tool' = [tool EXCEPT ![q].pc = pc]

-----------------------------------------------------------------------------
(* ask_user.  create returns the existing row of the key, open or not. *)
tool_ask_user(q) ==
  /\ tool[q].pc = "idle"
  /\ row' = IF row[q].status = "absent"
            THEN [row EXCEPT ![q].status = "open", ![q].version = 1]
            ELSE row
  /\ Goes(q, "polling")
  /\ deserted' = deserted \ {q}
  /\ UNCHANGED <<reply, told, crashes, late>>

(* Mutant: the poll looks only at the deadline it has not reached. *)
wait_ignores_resolution(q) ==
  /\ tool[q].pc = "polling"
  /\ ~terminal(q)
  /\ tool' = [tool EXCEPT ![q].pc = "expired", ![q].version = row[q].version]
  /\ UNCHANGED <<row, reply, told, crashes, deserted, late>>

(* wait: one poll.  A resolved row ends the wait with what it says; an     *)
(* open one is timed out when the deadline has passed.                     *)
wait(q) ==
  /\ tool[q].pc = "polling"
  /\ \/ /\ terminal(q)
        /\ tool' = [tool EXCEPT ![q].pc = "closing", ![q].result = row[q]]
     \/ /\ ~terminal(q)
        /\ tool' = [tool EXCEPT ![q].pc = "expired", ![q].version = row[q].version]
  /\ UNCHANGED <<row, reply, told, crashes, deserted, late>>

(* resolve(timed_out) of wait: on a conflict the answer that came first is *)
(* read by the next poll.                                                  *)
wait_times_out(q) ==
  /\ tool[q].pc = "expired"
  /\ \/ /\ resolve(q, "timed_out", None, tool[q].version)
        /\ tool' = [tool EXCEPT ![q].pc = "closing", ![q].result = row'[q]]
     \/ /\ ~Resolvable(q, tool[q].version)
        /\ Goes(q, "polling")
        /\ UNCHANGED row
  /\ UNCHANGED <<reply, told, crashes, deserted, late>>

(* A Stop of the run cancels the await; the caller gets no result.  The    *)
(* resolve of the timeout runs in a thread, which the Stop does not reach. *)
stop_run(q) ==
  /\ tool[q].pc \in {"polling", "expired"}
  /\ Goes(q, "closing")
  /\ late' = IF tool[q].pc = "polling" THEN late
             ELSE late \cup {[question |-> q, version |-> tool[q].version]}
  /\ UNCHANGED <<row, reply, told, crashes, deserted>>

late_times_out(q) ==
  \E l \in late :
    /\ l.question = q
    /\ late' = late \ {l}
    /\ \/ resolve(q, "timed_out", None, l.version)
       \/ ~Resolvable(q, l.version) /\ UNCHANGED row
    /\ UNCHANGED <<tool, reply, told, crashes, deserted>>

(* Mutant: an interrupted waiter leaves its question open. *)
close_leaves_open(q) ==
  /\ tool[q].pc = "closing"
  /\ Goes(q, "done")
  /\ UNCHANGED <<row, reply, told, crashes, deserted, late>>

(* The finally block: read the row, and cancel it if it is still open.     *)
close(q) ==
  /\ tool[q].pc = "closing"
  /\ IF terminal(q) THEN Goes(q, "done")
     ELSE tool' = [tool EXCEPT ![q].pc = "retiring", ![q].version = row[q].version]
  /\ UNCHANGED <<row, reply, told, crashes, deserted, late>>

(* resolve(cancelled); an answer that came in between wins. *)
retire(q) ==
  /\ tool[q].pc = "retiring"
  /\ Goes(q, "done")
  /\ \/ resolve(q, "cancelled", None, tool[q].version)
     \/ ~Resolvable(q, tool[q].version) /\ UNCHANGED row
  /\ UNCHANGED <<reply, told, crashes, deserted, late>>

-----------------------------------------------------------------------------
(* resolve_response: the reply of the user interface, in two transactions. *)
reply_reads(q, response) ==
  /\ reply = None
  /\ row[q].status = "open"
  /\ reply' = [question |-> q, version |-> row[q].version, response |-> response,
               status |-> IF response = None THEN "skipped" ELSE "answered"]
  /\ UNCHANGED <<row, tool, told, crashes, deserted, late>>

(* Mutant: success is reported although the write found a conflict. *)
reply_writes_optimistic ==
  /\ reply # None
  /\ IF Resolvable(reply.question, reply.version)
     THEN Resolved(reply.question, reply.status, reply.response) ELSE UNCHANGED row
  /\ told' = told \cup {reply}
  /\ reply' = None
  /\ UNCHANGED <<tool, crashes, deserted, late>>

reply_writes ==
  /\ reply # None
  /\ reply' = None
  /\ \/ /\ resolve(reply.question, reply.status, reply.response, reply.version)
        /\ told' = told \cup {reply}
     \/ /\ ~Resolvable(reply.question, reply.version)
        /\ UNCHANGED <<row, told>>
  /\ UNCHANGED <<tool, crashes, deserted, late>>

(* The host dies with its calls.  No start of the host looks at open rows: *)
(* the question stays in the list of the chat, until the user replies or a *)
(* resumed run repeats its ask_user call under the same key.               *)
crash ==
  /\ crashes < MaxCrashes
  /\ crashes' = crashes + 1
  /\ tool' = [q \in Question |-> Idle]
  /\ deserted' = deserted \cup {q \in Question : tool[q].pc \notin {"idle", "done"}}
  /\ reply' = None /\ late' = {}
  /\ UNCHANGED <<row, told>>

-----------------------------------------------------------------------------
ToolStep(q) == tool_ask_user(q) \/ wait(q) \/ wait_times_out(q) \/ close(q) \/ retire(q)

InteractionsNext ==
  \/ \E q \in Question : ToolStep(q) \/ stop_run(q) \/ late_times_out(q)
  \/ \E q \in Question, a \in Answer \cup {None} : reply_reads(q, a)
  \/ reply_writes
  \/ crash

(* Fairness: the event loop keeps running the tool and its timeout. *)
InteractionsSpec ==
  /\ InteractionsInit
  /\ [][InteractionsNext]_intvars
  /\ \A q \in Question : WF_intvars(ToolStep(q))

-----------------------------------------------------------------------------
InteractionsTypeOK ==
  /\ row \in [Question -> Interaction]
  /\ tool \in [Question -> Tool]
  /\ reply \in Reply \cup {None}
  /\ told \subseteq Reply
  /\ crashes \in 0..MaxCrashes
  /\ deserted \subseteq Question
  /\ late \subseteq [question: Question, version: Nat]

(* The caller of ask_user gets exactly what the table records: it is never *)
(* told of a timeout when the user's answer came first.  And when the user *)
(* interface says a reply was accepted, it is the recorded outcome of the  *)
(* question.                                                               *)
EveryoneIsToldTheOutcome ==
  /\ \A q \in Question : tool[q].result # None => tool[q].result = row[q]
  /\ \A r \in told : row[r.question].status = r.status
                       /\ row[r.question].response = r.response

(* Somebody waits for every open question, unless its call died with the   *)
(* host: a call that ended, by answer, timeout or Stop, left none open.    *)
NoOrphanQuestion ==
  \A q \in Question :
    row[q].status = "open" => tool[q].pc \notin {"idle", "done"} \/ q \in deserted

(* A row is written twice: when the question is asked and by the first     *)
(* writer that resolves it.                                                *)
WrittenTwice ==
  \A q \in Question :
    /\ row[q].status = "absent" => row[q].version = 0
    /\ row[q].status = "open" => row[q].version = 1
    /\ terminal(q) => row[q].version = 2

(* A call that runs has its row, and the version it took from an           *)
(* unresolved row is the one every open row has.                           *)
CallKnowsItsRow ==
  \A q \in Question :
    /\ tool[q].pc # "idle" => row[q].status # "absent"
    /\ tool[q].pc \in {"expired", "retiring"} => tool[q].version = 1

(* Well-typed state; and a timeout, a Stop or a reply between any two      *)
(* transactions of the others leaves no question open that nobody waits    *)
(* for: a writer that finds a conflict was beaten by another that resolved *)
(* the question.  A crash does leave its questions open: nothing retires   *)
(* them (tool_ask_user's finally block died too).                          *)
InteractionsInv ==
  InteractionsTypeOK /\ WrittenTwice /\ CallKnowsItsRow /\ NoOrphanQuestion

(* Every call of ask_user ends. *)
AskEnds == \A q \in Question : (tool[q].pc = "polling") ~> (tool[q].pc \in {"done", "idle"})
=============================================================================
