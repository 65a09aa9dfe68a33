---------------------------- MODULE Verification ----------------------------
(***************************************************************************)
(* Interactive verification: the flows in the OlmMachine, the log of ended *)
(* ones (src/crypto/verify.rs), the syncs that carry the peer's messages,  *)
(* the admin commands, and `ctl verify' (src/admin/verify.rs).             *)
(*                                                                         *)
(* The OlmMachine drops an ended flow at the start of the next sync it     *)
(* processes.  Whatever may end a flow notes the end down before another   *)
(* sync is processed: a sync before it gives its lock back, an admin       *)
(* command while it holds that lock itself (SyncState::pause).             *)
(*                                                                         *)
(* The OlmMachine and the peer are modelled from what the code asks of     *)
(* them; a flow is where stage() says it is, and stays at the end it came  *)
(* to after it has been dropped.                                           *)
(***************************************************************************)
EXTENDS Naturals, Sequences, FiniteSets, SequencesExt

CONSTANTS
  Flows,        \* flow IDs
  Ours,         \* those of flows we start, with a device of our own
  Foreign,      \* those of flows with another user
  InRoom,       \* those whose messages are room events
  Admins, Cli,  \* admin clients; the one that runs `ctl verify'
  Commands,     \* what the other admin clients ask for
  MaxFinished,  \* MAX_FINISHED
  MaxFailures   \* bound: requests that fail, syncs cut short

ASSUME FlowsAssumption ==
  IsFiniteSet(Flows) /\ Foreign \subseteq Flows /\ InRoom \subseteq Foreign
ASSUME OursAssumption == Ours \subseteq Flows \ Foreign
ASSUME AdminsAssumption == Cli \in Admins
ASSUME SizesAssumption == MaxFinished \in Nat \ {0} /\ MaxFailures \in Nat

VARIABLES
  stage,        \* OlmMachine: stage() of each flow, "none" before it begins
  gone,         \* ... the flows it has dropped
  mac,          \* ... the flows in which the peer has confirmed
  reached,      \* the flows in which the peer has got our last message
  trusted,      \* the store: the flows whose other device is trusted
  watched,      \* VerificationLog.users has the other user
  order,        \* VerificationLog.order; finished has the same keys
  held,         \* a sync handler holds the lock of SyncState and has processed
  job,          \* the command each admin client is in
  answer,       \* what the last command of `ctl verify' returned
  ui, mine,     \* where `ctl verify' stands, and the flows it may be about
  late,         \* its deadline has passed
  verdict,      \* how it ended
  owed,         \* history: flows whose end has to be noted down
  yes,          \* history: flows a user has confirmed
  failures      \* what is used up of MaxFailures

olm  == <<stage, gone, mac, reached, owed>>
log  == <<watched, order>>
cmd  == <<job, answer>>
cli  == <<ui, mine, verdict>>
vars == <<olm, trusted, log, held, cmd, cli, late, yes, failures>>

Sas    == {"sas_incoming", "key_exchange", "compare", "confirmed"}
Active == {"incoming", "outgoing", "ready"} \cup Sas
Ended  == {"done", "cancelled"}

Paused == {"confirm", "mismatch", "cancel"}
Plain  == {"show", "start", "advance", "accept", "start-sas", "sas-accept"}
NoJob  == [at |-> "idle"]
Jobs   == {NoJob} \cup
          [at : {"pause", "send", "tell", "trust"}, op : Plain \cup Paused, flow : Flows]

\* get_verification_request
Known(f) == stage[f] # "none" /\ f \notin gone

Init ==
  /\ stage = [f \in Flows |-> "none"]
  /\ gone = {} /\ mac = {} /\ reached = {} /\ trusted = {}
  /\ watched = FALSE /\ order = <<>>
  /\ held = FALSE
  /\ job = [a \in Admins |-> NoJob] /\ answer = "none"
  /\ ui = "off" /\ mine = {} /\ late = FALSE /\ verdict = "none"
  /\ owed = {} /\ yes = {} /\ failures = 0

-----------------------------------------------------------------------------
(* VerificationLog *)

\* record_finished looks up the flows with our own user and the watched ones.
Looked(f) == f \in Foreign => watched'

\* Mutant: the oldest entry stays one flow too long.
RememberOneMore(o, f) ==
  IF f \in Range(o) THEN o
  ELSE IF Len(o) > MaxFinished THEN Append(Tail(o), f) ELSE Append(o, f)

Remember(o, f) ==
  IF f \in Range(o) THEN o
  ELSE IF Len(o) = MaxFinished THEN Append(Tail(o), f) ELSE Append(o, f)

\* The OlmMachine lists the flows in no particular order.
RecordFinished ==
  \E found \in SetToSeqs({f \in Flows \ gone' : stage'[f] \in Ended /\ Looked(f)}) :
     order' = FoldLeft(Remember, order, found)

Watch(f) == watched' = (watched \/ f \in Foreign)

-----------------------------------------------------------------------------
(* Syncs.  A handler has no state of its own between its two parts, so one  *)
(* stands for however many are under way.                                   *)

\* Mutant: nobody waits for a sync to be processed.
Unheeded == TRUE

Unlocked == ~held

\* What the peer may have sent about a flow, and where that takes it.  It
\* confirms whether or not it knows that we have.
News(f) ==
  CASE stage[f] = "none" /\ f \notin Ours            -> {"incoming"}
    [] stage[f] = "outgoing" /\ f \in reached        -> {"ready", "cancelled"}
    [] stage[f] = "ready" /\ f \in reached           -> {"sas_incoming", "cancelled"}
    [] stage[f] = "key_exchange" /\ f \in reached    -> {"compare", "cancelled"}
    [] stage[f] = "compare"                          -> {"compare", "cancelled"}
    [] stage[f] = "confirmed"                        -> {"confirmed", "done", "cancelled"}
    [] OTHER -> IF stage[f] \in Active THEN {"cancelled"} ELSE {}

\* Its end has to be noted down.
Owed(f, to) ==
  IF to \in Ended \ {stage[f]} /\ (f \in Foreign => watched) THEN owed \cup {f} ELSE owed

Receive(f, to) ==
  /\ to \in News(f)
  /\ stage' = [stage EXCEPT ![f] = to]
  /\ mac' = IF stage[f] \in {"compare", "confirmed"} /\ to # "cancelled"
              THEN mac \cup {f} ELSE mac

\* OlmMachine::receive_sync_changes, under the lock: ended flows go first.
Process ==
  /\ Unlocked /\ held' = TRUE
  /\ gone' = {f \in Flows : stage[f] \in Ended}
  /\ \/ UNCHANGED <<stage, mac, owed>>
     \/ \E f \in Flows \ InRoom, to \in Active \cup Ended : Receive(f, to) /\ owed' = Owed(f, to)
  /\ UNCHANGED <<reached, trusted, log, cmd, cli, late, yes, failures>>

\* record_finished, and the lock is given back.
Record ==
  /\ held /\ held' = FALSE
  /\ UNCHANGED <<olm, watched>> /\ RecordFinished
  /\ UNCHANGED <<trusted, cmd, cli, late, yes, failures>>

\* The client hangs up, or the store fails: nothing is recorded.
Cut ==
  /\ held /\ held' = FALSE
  /\ failures < MaxFailures /\ failures' = failures + 1
  /\ owed' = owed \cap (Range(order) \cup gone)
  /\ UNCHANGED <<stage, gone, mac, reached, trusted, log, cmd, cli, late, yes>>

\* process_sync_body, without the lock: room events are fed to the OlmMachine.
Rooms ==
  /\ \E f \in InRoom, to \in Active \cup Ended : Receive(f, to)
  /\ UNCHANGED <<gone, reached, owed, held, trusted, log, cmd, cli, late, yes, failures>>

\* The effect of a flow that is done arrives in the store.
Trust(f) ==
  /\ stage[f] = "done" /\ f \notin trusted
  /\ trusted' = trusted \cup {f}
  /\ UNCHANGED <<olm, log, held, cmd, cli, late, yes, failures>>

-----------------------------------------------------------------------------
(* Admin commands *)

Idle(a) == job[a] = NoJob
Goes(a, place, op, f) == job' = [job EXCEPT ![a] = [at |-> place, op |-> op, flow |-> f]]

Reply(a, word) ==
  /\ job' = [job EXCEPT ![a] = NoJob]
  /\ answer' = IF a = Cli THEN word ELSE answer

\* show: a flow the OlmMachine has dropped is answered from the log; `done' is
\* held back (settle) for the store.
Show(a, op, f) ==
  /\ Watch(f) /\ RecordFinished
  /\ IF ~Known(f) /\ f \notin Range(order') THEN Reply(a, "error")
     ELSE IF stage[f] = "done" THEN Goes(a, "trust", op, f) /\ UNCHANGED answer
     ELSE Reply(a, stage[f])

\* Where a command that needs no human takes a flow.
Moves(op, f, startSas) ==
  {to \in {"ready", "key_exchange"} :
     /\ Known(f)
     /\ CASE stage[f] = "incoming"     -> to = "ready" /\ op \in {"accept", "advance"}
          [] stage[f] = "ready"        -> /\ to = "key_exchange"
                                          /\ \/ op = "start-sas"
                                             \/ op = "advance" /\ (f \in Ours \/ startSas)
          [] stage[f] = "sas_incoming" -> to = "key_exchange" /\ op \in {"sas-accept", "advance"}
          [] OTHER -> FALSE}

\* The OlmMachine takes the step and hands out the message that tells the peer.
Step(a, op, f, to) ==
  /\ stage' = [stage EXCEPT ![f] = to]
  /\ reached' = reached \ {f}
  /\ Goes(a, "send", op, f)
  /\ UNCHANGED <<gone, mac, owed, answer>>

\* start: with a device of our own.
Start(a, f) ==
  /\ Idle(a) /\ f \in Ours /\ stage[f] = "none"
  /\ Step(a, "start", f, "outgoing")
  /\ UNCHANGED <<trusted, log, held, late, yes, failures>>

\* advance and show watch the other user; accept and start_sas refuse a flow
\* that is elsewhere; sas_accept then has nothing to send.
Plainly(a, op, f, startSas) ==
  /\ Idle(a)
  /\ \/ \E to \in Moves(op, f, startSas) :
          Step(a, op, f, to) /\ (IF op = "advance" THEN Watch(f) ELSE UNCHANGED watched)
                            /\ UNCHANGED order
     \/ /\ Moves(op, f, startSas) = {} /\ UNCHANGED olm
        /\ \/ op \in {"show", "advance"} /\ Show(a, op, f)
           \/ op = "sas-accept" /\ Known(f) /\ stage[f] \in Sas \cup Ended /\ Show(a, op, f)
           \/ /\ op \in {"accept", "start-sas", "sas-accept"}
              /\ op = "sas-accept" => ~Known(f) \/ stage[f] \notin Sas
              /\ Reply(a, "error") /\ UNCHANGED log
  /\ UNCHANGED <<trusted, held, late, yes, failures>>

\* confirm, mismatch (get_sas) and cancel (get_request) wait for the lock.  An
\* ended flow may have come to its SAS or not.
Ask(a, op, f) ==
  /\ Idle(a)
  /\ \/ /\ Known(f) /\ (op = "cancel" \/ stage[f] \in Sas \cup Ended)
        /\ Goes(a, "pause", op, f) /\ UNCHANGED answer
     \/ /\ ~Known(f) \/ (op # "cancel" /\ stage[f] \notin Sas)
        /\ Reply(a, "error")
  /\ UNCHANGED <<olm, trusted, log, held, late, yes, failures>>

\* What comes of them: nothing when the flow is elsewhere.
Outcomes(op, f) ==
  CASE op = "confirm" /\ stage[f] = "compare" ->
         {"confirmed"} \cup {to \in {"done"} : f \in mac}
    [] op = "mismatch" /\ stage[f] \in Sas  -> {"cancelled"}
    [] op = "cancel" /\ stage[f] \in Active -> {"cancelled"}
    [] OTHER -> {stage[f]}

Unpause(a) ==
  /\ job[a].at = "pause" /\ Unlocked
  /\ LET f == job[a].flow  op == job[a].op IN
     \E to \in Outcomes(op, f) :
       /\ stage' = [stage EXCEPT ![f] = to]
       /\ reached' = IF to = stage[f] THEN reached ELSE reached \ {f}
       /\ owed' = Owed(f, to)
       /\ yes' = IF op = "confirm" /\ to # stage[f] THEN yes \cup {f} ELSE yes
       /\ Goes(a, IF to = stage[f] THEN "tell" ELSE "send", op, f)
  /\ UNCHANGED <<gone, mac, watched>> /\ RecordFinished
  /\ UNCHANGED <<trusted, held, answer, late, failures>>

\* send_verification_request, with send_room_message_request or send_to_device.
Send(a) ==
  /\ job[a].at = "send"
  /\ reached' = reached \cup {job[a].flow}
  /\ Goes(a, "tell", job[a].op, job[a].flow)
  /\ UNCHANGED <<stage, gone, mac, owed, trusted, log, held, answer, late, yes, failures>>

\* The request fails, or its answer is lost; so may confirm's signatures.
SendFails(a) ==
  /\ job[a].at \in {"send", "tell"} /\ failures < MaxFailures
  /\ failures' = failures + 1
  /\ Reply(a, "error")
  /\ UNCHANGED <<olm, trusted, log, held, late, yes>>

\* start, accept and start_sas describe the flow they hold; the others show it.
Tell(a) ==
  /\ job[a].at = "tell" /\ UNCHANGED olm
  /\ LET f == job[a].flow IN
     IF job[a].op \in {"start", "accept", "start-sas"}
       THEN Reply(a, stage[f]) /\ UNCHANGED log
       ELSE Show(a, job[a].op, f)
  /\ UNCHANGED <<trusted, held, late, yes, failures>>

\* Mutant: settle is left out.
Unsettled(a) ==
  /\ job[a].at = "trust"
  /\ Reply(a, "done")
  /\ UNCHANGED <<olm, trusted, log, held, late, yes, failures>>

\* settle ends when the device is trusted, or after two seconds.
Settled(a) ==
  /\ job[a].at = "trust"
  /\ Reply(a, IF job[a].flow \in trusted THEN "done" ELSE "done, not seen")
  /\ UNCHANGED <<olm, trusted, log, held, late, yes, failures>>

-----------------------------------------------------------------------------
(* ctl verify *)

Waiting == {"starting", "advancing", "confirming", "refusing", "abandoning", "timing out"}
Places  == {"off", "listing", "polling", "asking", "over"} \cup Waiting
Over(word) == ui' = "over" /\ verdict' = word /\ UNCHANGED mine
Go(place)  == ui' = place /\ UNCHANGED <<mine, verdict>>

RunStart ==
  /\ ui = "off" /\ ui' = "starting"
  /\ \E f \in Ours : Start(Cli, f) /\ mine' = {f}
  /\ UNCHANGED verdict

RunWait ==
  /\ ui = "off" /\ ui' = "listing"
  /\ mine' \in {Flows \ Foreign, Foreign}
  /\ UNCHANGED <<olm, trusted, log, held, cmd, verdict, late, yes, failures>>

\* list, and the first flow of it that has not ended.
List ==
  /\ ui = "listing"
  /\ UNCHANGED olm /\ watched' = (watched \/ mine \subseteq Foreign) /\ RecordFinished
  /\ LET open == {f \in mine : Known(f) /\ stage[f] \in Active} IN
     \/ \E f \in open : mine' = {f} /\ ui' = "polling" /\ UNCHANGED verdict
     \/ open = {} /\ late /\ Over("nothing came")
     \/ open = {} /\ ~late /\ UNCHANGED cli
  /\ UNCHANGED <<trusted, held, cmd, late, yes, failures>>

Poll ==
  /\ ui = "polling" /\ Go("advancing")
  /\ \E f \in mine, startSas \in BOOLEAN : Plainly(Cli, "advance", f, startSas)

\* What `ctl verify' makes of the flow advance returned.
Read ==
  /\ ui = "advancing" /\ Idle(Cli)
  /\ IF answer \in Ended \cup {"done, not seen", "error"} THEN Over(answer)
     ELSE IF answer = "compare" THEN Go("asking")
     ELSE ~late /\ Go("polling")
  /\ UNCHANGED <<olm, trusted, log, held, cmd, late, yes, failures>>

\* Mutant: the deadline is looked at only before the flow is ready.
GiveUpEarly ==
  /\ ui = "advancing" /\ Idle(Cli) /\ late
  /\ answer \in {"incoming", "outgoing"}
  /\ Go("timing out") /\ \E f \in mine : Ask(Cli, "cancel", f)

GiveUp ==
  /\ ui = "advancing" /\ Idle(Cli) /\ late
  /\ answer \in Active \ {"compare"}
  /\ Go("timing out") /\ \E f \in mine : Ask(Cli, "cancel", f)

\* The user says yes, or no, or nothing (no terminal, end of input).
UserAnswers ==
  /\ ui = "asking"
  /\ \E f \in mine :
       \/ Go("confirming") /\ Ask(Cli, "confirm", f)
       \/ Go("refusing") /\ Ask(Cli, "mismatch", f)
       \/ Go("abandoning") /\ Ask(Cli, "cancel", f)

AfterCommand ==
  /\ Idle(Cli)
  /\ \/ ui \in {"starting", "confirming"} /\ answer # "error" /\ Go("polling")
     \/ ui \in {"starting", "confirming", "refusing"} /\ answer = "error" /\ Over("error")
     \/ ui = "refusing" /\ answer # "error" /\ Over("mismatch")
     \/ ui = "abandoning" /\ Over("no answer")
     \/ ui = "timing out" /\ Over("timeout")
  /\ UNCHANGED <<olm, trusted, log, held, cmd, late, yes, failures>>

Deadline ==
  /\ ui \notin {"off", "over"} /\ ~late /\ late' = TRUE
  /\ UNCHANGED <<olm, trusted, log, held, cmd, cli, yes, failures>>

-----------------------------------------------------------------------------
Working(a) == Unpause(a) \/ Send(a) \/ SendFails(a) \/ Tell(a) \/ Settled(a)

Others ==
  /\ \E a \in Admins \ {Cli} :
       \/ \E f \in Flows : "start" \in Commands /\ Start(a, f)
       \/ \E f \in Flows, op \in Commands \cap (Plain \ {"start"}), startSas \in BOOLEAN :
            Plainly(a, op, f, startSas)
       \/ \E f \in Flows, op \in Commands \cap Paused : Ask(a, op, f)
  /\ UNCHANGED cli

CtlVerify ==
  RunStart \/ RunWait \/ List \/ Poll \/ Read \/ GiveUp \/ UserAnswers \/ AfterCommand

Next ==
  \/ Process \/ Record \/ Cut \/ Rooms
  \/ \E f \in Flows : Trust(f)
  \/ \E a \in Admins : Working(a) /\ UNCHANGED cli
  \/ Others \/ CtlVerify \/ Deadline

\* Futures are polled, the lock is handed on in order (tokio's Mutex), requests
\* are answered or fail, time passes and the user presses a key.
Fairness ==
  /\ WF_vars(Record)
  /\ SF_vars(Unpause(Cli) /\ UNCHANGED cli)
  /\ WF_vars((Send(Cli) \/ Tell(Cli) \/ Settled(Cli)) /\ UNCHANGED cli)
  /\ WF_vars(CtlVerify /\ ui # "off")
  /\ WF_vars(Deadline)

Spec == Init /\ [][Next]_vars /\ Fairness

-----------------------------------------------------------------------------
(* Properties *)

\* Every variable has its type, and VerificationLog keeps at most MaxFinished
\* flows, each once and none that has not ended (verify.rs, record).
TypeOK ==
  /\ stage \in [Flows -> {"none"} \cup Active \cup Ended]
  /\ gone \subseteq {f \in Flows : stage[f] \in Ended}
  /\ mac \subseteq Flows /\ reached \subseteq Flows
  /\ trusted \subseteq {f \in Flows : stage[f] = "done"}
  /\ watched \in BOOLEAN /\ IsInjective(order) /\ Len(order) <= MaxFinished
  /\ Range(order) \subseteq {f \in Flows : stage[f] \in Ended}
  /\ held \in BOOLEAN
  /\ job \in [Admins -> Jobs]
  /\ answer \in {"none", "done, not seen", "error"} \cup Active \cup Ended
  /\ ui \in Places /\ mine \subseteq Flows /\ late \in BOOLEAN
  /\ owed \subseteq Flows /\ yes \subseteq Flows /\ failures \in 0..MaxFailures

\* How a flow ended can be asked for as long as fewer than MaxFinished others
\* have ended since, whatever syncs and commands are under way at the time:
\* the OlmMachine still has the flow, or the log does, or the log is full of
\* others.  (A flow with another user nobody has looked at is not watched; the
\* end an in-room event brings is noted by the next command only: README.)
EndedIsRemembered ==
  \A f \in owed : f \in gone => f \in Range(order) \/ Len(order) = MaxFinished

\* What `ctl verify' reports is so: a verified device is in the store as one,
\* and only after a user compared; what is reported as cancelled or refused
\* was not verified, whatever else was done to the flow meanwhile.  (Unless
\* another client confirms what this user refuses: README.)
ReportsAreTrue ==
  \A f \in mine :
    /\ verdict = "done" => f \in trusted /\ f \in yes
    /\ verdict \in {"mismatch", "cancelled"} => stage[f] = "cancelled" /\ f \notin trusted

\* Once begun, `ctl verify' comes to an end, though the peer never answers and
\* syncs keep taking the lock (run's deadline, SyncState::pause).
RunEnds == ui # "off" ~> ui = "over"
=============================================================================
