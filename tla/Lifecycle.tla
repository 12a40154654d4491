----------------------------- MODULE Lifecycle ------------------------------
(***************************************************************************)
(* The process of "kestrai up" (internal/cli/up.go) around the control     *)
(* plane: started, serving, stopped by a signal, given up by its listener  *)
(* or killed, and started again on the same table.                         *)
(*                                                                         *)
(* A signal cancels the context of the reconciler and of nothing else;     *)
(* runUp then drains the gRPC server (GracefulStop), closes the store and  *)
(* returns.  It does not wait for the reconciler's goroutine, so a         *)
(* write-back that had begun may still land.  An error of Serve makes      *)
(* runUp close the store at once, with handlers in flight.                 *)
(*                                                                         *)
(* A start that fails (the file does not open, the address is taken) ends  *)
(* before it touches a row and is not an action.  MaxFaults bounds the     *)
(* ends of the process together with the failing writes.                   *)
(***************************************************************************)
EXTENDS ControlPlane

VARIABLES
    phase,      \* where runUp is
    late,       \* the Workflow whose write-back had begun at the signal, if any
    streams     \* sessions that hold a streaming call (server reflection) open

lifecycleVars == <<phase, late, streams>>
upVars == <<vars, lifecycleVars>>

Phases ==
    {"down",        \* no process
     "up",          \* serving: the select at the end of runUp
     "draining",    \* in GracefulStop
     "failing",     \* Serve has returned an error
     "closed",      \* store closed after GracefulStop
     "abandoned"}   \* store closed after an error of Serve

UpInit ==
    /\ Init
    /\ phase = "down"
    /\ late = {}
    /\ streams = {}

Enter(p) == phase' = p

-----------------------------------------------------------------------------
(* Serving. *)

(* Open, Listen, the goroutines of the reconciler and of Serve. *)
Start ==
    /\ phase = "down"
    /\ Enter("up")
    /\ UNCHANGED <<vars, late, streams>>

(* New calls are accepted until the server stops listening. *)
Accept ==
    /\ phase = "up"
    /\ (\E s \in Sessions : ProjectStep(s) \/ WorkflowStep(s)) \/ DeleteStep
    /\ UNCHANGED lifecycleVars

StoreOpen == phase \in {"up", "draining", "failing"}

(* The second store call of a handler returns.  Once the store is closed   *)
(* it can only fail, which is what Cancel is.                              *)
HandlerStep(s) ==
    /\ \/ StoreOpen /\ (CommitCreate(s) \/ CommitUpdate(s) \/ Refuse(s))
       \/ Cancel(s)
    /\ UNCHANGED lifecycleVars

(* A client of the reflection service keeps its stream as long as it likes. *)
OpenStream(s) ==
    /\ phase = "up"
    /\ streams' = streams \union {s}
    /\ UNCHANGED <<vars, phase, late>>

CloseStream(s) ==
    /\ s \in streams
    /\ streams' = streams \ {s}
    /\ UNCHANGED <<vars, phase, late>>

(* The reconciler, until its context is cancelled or the process ends. *)
Resync ==
    /\ phase = "up" \/ (phase = "failing" /\ UNCHANGED faults)
    /\ ReconcilerStep
    /\ UNCHANGED lifecycleVars

-----------------------------------------------------------------------------
(* Stopping. *)

(* SIGINT or SIGTERM.  Of the reconciler's pass at most the store call it  *)
(* is in gets through; the others fail on the cancelled context.  Further  *)
(* signals change nothing: NotifyContext keeps swallowing them.            *)
Signal ==
    /\ phase = "up"
    /\ faults < MaxFaults
    /\ Enter("draining")
    /\ late' \in {{}} \union {{w} : w \in {v \in WorkflowKeys : Pending(v)}}
    /\ UNCHANGED <<vars, streams>>

(* The write-back that had begun lands while the server drains. *)
LateWrite ==
    /\ phase = "draining"
    /\ \E w \in late : ReconcileWrite(w) \/ ReconcileRaced(w)
    /\ late' = {}
    /\ UNCHANGED <<phase, streams>>

Drained == streams = {} /\ \A s \in Sessions : Idle(s)

(* Mutant: Stop in the place of GracefulStop. *)
CloseStore_Undrained ==
    /\ phase = "draining"
    /\ Enter("closed")
    /\ UNCHANGED <<vars, late, streams>>

(* Mutant: the shutdown also waits for the reconciler's pass to end. *)
CloseStore_AwaitsReconciler ==
    /\ phase = "draining"
    /\ Drained
    /\ snap = Nothing
    /\ Enter("closed")
    /\ UNCHANGED <<vars, late, streams>>

(* GracefulStop returns when the calls in flight, streams included, are    *)
(* answered; then the deferred Close of the store.                         *)
CloseStore ==
    /\ phase = "draining"
    /\ Drained
    /\ Enter("closed")
    /\ UNCHANGED <<vars, late, streams>>

(* Serve returns an error: the listener is broken. *)
ServeFails ==
    /\ phase = "up"
    /\ faults < MaxFaults
    /\ Enter("failing")
    /\ UNCHANGED <<vars, late, streams>>

AbandonStore ==
    /\ phase = "failing"
    /\ Enter("abandoned")
    /\ UNCHANGED <<vars, late, streams>>

Gone == Crash /\ Enter("down") /\ late' = {} /\ streams' = {}

(* Mutant: the next process goes on with the rows this one had listed. *)
Exit_KeepsSnapshot ==
    /\ phase \in {"closed", "abandoned"}
    /\ faults' = faults + 1
    /\ call' = [s \in Sessions |-> NoCall]
    /\ UNCHANGED <<storeVars, held, snap>>
    /\ Enter("down") /\ late' = {} /\ streams' = {}

(* runUp returns and main exits: goroutines left over end with it. *)
Exit == phase \in {"closed", "abandoned"} /\ Gone

(* The process is killed. *)
Die == phase # "down" /\ Gone

-----------------------------------------------------------------------------
UpNext ==
    \/ Start \/ Accept \/ Resync
    \/ \E s \in Sessions : HandlerStep(s) \/ OpenStream(s) \/ CloseStream(s)
    \/ Signal \/ LateWrite \/ CloseStore
    \/ ServeFails \/ AbandonStore
    \/ Exit \/ Die

UpSpec == UpInit /\ [][UpNext]_upVars

(* What a goroutine can do it does in the end: Run calls reconcileAll at   *)
(* once and on every tick and walks its whole list whatever the items      *)
(* answer; a store call of a handler returns; runUp goes on.  Clients,     *)
(* signals, faults and the user who starts the process again owe nothing.  *)
UpFairness ==
    /\ WF_upVars(phase = "up" /\ ReconcileList /\ UNCHANGED lifecycleVars)
    /\ WF_upVars(phase = "up" /\ (\E w \in WorkflowKeys : ReconcileItem(w)) /\ UNCHANGED lifecycleVars)
    /\ \A s \in Sessions : WF_upVars(HandlerStep(s))
    /\ WF_upVars(CloseStore \/ AbandonStore \/ Exit)

FairUpSpec == UpSpec /\ UpFairness

-----------------------------------------------------------------------------
(* Properties. *)

(* The variables hold what runUp can be in; a write-back is late only      *)
(* after a signal, and without a process no call is in flight, no stream   *)
(* open and nothing listed, whatever way the last one ended.               *)
UpTypeOK ==
    /\ phase \in Phases
    /\ late \subseteq WorkflowKeys
    /\ streams \subseteq Sessions
    /\ late # {} => phase \in {"draining", "closed"}
    /\ phase = "down" => streams = {} /\ snap = Nothing /\ \A s \in Sessions : Idle(s)

(* Stopped by a signal, runUp closes the store only when no handler is     *)
(* left that would find it closed: "GracefulStop stops the server after    *)
(* in-flight RPCs drain" (server.go).  Only a broken listener or a kill    *)
(* cuts a handler off.                                                     *)
CutOff(s) == ~Idle(s) /\ phase' = "down"

SignalCutsNobodyOff ==
    [][\A s \in Sessions : CutOff(s) => phase # "closed"]_upVars

(* A shutdown ends unless a client holds a stream open for ever: neither a *)
(* handler nor the reconciler can hold it up.                              *)
ShutdownEnds == (phase = "draining" /\ streams = {}) ~> (phase = "down")

(* Every Workflow the users leave alone gets a truthful status as long as  *)
(* the process stays up, however the reconciler was raced, refused,        *)
(* stopped or restarted on the way.                                        *)
ConvergesWhileUp ==
    \A w \in WorkflowKeys :
        (phase = "up" /\ Present(w) /\ ~Converged(w))
            ~> (~Present(w) \/ Converged(w) \/ phase # "up")

(* Through starts, shutdowns, late writes and kills the table, the clients *)
(* and the reconciler behave as ControlPlane says.                         *)
ImplementsControlPlane == Spec
=============================================================================
