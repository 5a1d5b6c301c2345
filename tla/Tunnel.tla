------------------------------- MODULE Tunnel -------------------------------
(***************************************************************************)
(* app tunnel and box ssh/scp/rsync: one process that forwards local ports *)
(* to a pod (usecase/app/tunnel.go, usecase/box/port_forward.go,           *)
(* adapters/kube/client_port_forward.go).                                  *)
(*                                                                         *)
(* The command, the forwarder and the pod watcher are goroutines.  Every   *)
(* PortForwardMulti starts a generation of the latter two, with channels   *)
(* of their own: stopChan, errChan (one error), doneChan.  A tunnel in     *)
(* interactive mode starts a new generation when the connection was lost.  *)
(* A forwarder with an ErrOut replaces the process-wide ErrorHandlers.     *)
(***************************************************************************)
EXTENDS Naturals

CONSTANTS
  Pods,          \* the pods the selector can match
  Ports,         \* the local ports asked for
  First,         \* the first of them
  None,          \* no pod
  MaxForwards    \* bound: generations; the last one never loses its connection

ASSUME TunnelAssumption ==
  /\ First \in Ports
  /\ None \notin Pods
  /\ MaxForwards \in Nat \ {0}

Gens == 1 .. MaxForwards

VARIABLES
  mode,       \* "hold": until Ctrl+C; "command": app tunnel -- cmd; "ssh": box
  pc,         \* the command
  result,     \* how it ended
  backoff,    \* seconds before the next retry
  canceled,   \* Ctrl+C or SIGTERM: the context is done
  gen,        \* the current generation, 0 before the first
  target,     \* per generation: the pod
  fw,         \* per generation: the forwarder
  watch,      \* per generation: the watcher is on
  stopped,    \* per generation: stopChan is closed
  err,        \* per generation: the error in errChan
  up,         \* per generation: the ports it listened on; not empty: readyChan is closed
  handlers,   \* utilruntime.ErrorHandlers: the program's own or the forwarder's
  prev,       \* per generation: the handlers the forwarder found
  pods,       \* what the API server says of each pod
  cause       \* history: why a tunnel may end by itself

channels == <<stopped, err, up>>
runtime  == <<handlers, prev>>
vars == <<mode, pc, result, backoff, canceled, gen, target, fw, watch, channels,
          runtime, pods, cause>>

Points == {"resolve", "select", "open", "await", "dial", "command", "hold", "stop",
           "backoff", "ended"}
Phases == {"absent", "pending", "running", "ready", "deleting", "over"}

TypeOK ==
  /\ mode \in {"hold", "command", "ssh"}
  /\ pc \in Points
  /\ result \in {"none", "ok", "exit", "failed"}
  /\ backoff \in {1, 2}
  /\ pc \in {"hold", "backoff"} => backoff = 1   \* each connection resets it
  /\ canceled \in BOOLEAN
  /\ gen \in 0 .. MaxForwards
  /\ target \in [Gens -> Pods \cup {None}]
  /\ fw \in [Gens -> {"idle", "start", "dial", "serve", "restore", "done"}]
  /\ watch \in [Gens -> BOOLEAN]
  /\ stopped \in [Gens -> BOOLEAN]
  /\ err \in [Gens -> {"none", "refused", "lost"}]
  /\ up \in [Gens -> SUBSET Ports]
  /\ handlers \in {"own", "tunnel"}
  /\ prev \in [Gens -> {"own", "tunnel"}]
  /\ pods \in [Pods -> Phases]
  /\ cause \subseteq {"canceled", "pod", "api"}

Init ==
  /\ mode \in {"hold", "command", "ssh"}
  /\ pc = "resolve"
  /\ result = "none"
  /\ backoff = 1
  /\ canceled = FALSE
  /\ gen = 0
  /\ target = [g \in Gens |-> None]
  /\ fw = [g \in Gens |-> "idle"]
  /\ watch = [g \in Gens |-> FALSE]
  /\ stopped = [g \in Gens |-> FALSE]
  /\ err = [g \in Gens |-> "none"]
  /\ up = [g \in Gens |-> {}]
  /\ handlers = "own"
  /\ prev = [g \in Gens |-> "own"]
  /\ pods \in [Pods -> {"absent", "ready"}]
  /\ cause = {}

-----------------------------------------------------------------------------
(* The command.                                                              *)

End(r) == pc' = "ended" /\ result' = r

\* StopFunc: closes stopChan once.
Stop(g) == stopped' = [stopped EXCEPT ![g] = TRUE]

\* App, cluster, provider, kubeconfig, conversion, service and port specs.
Resolve ==
  /\ pc = "resolve"
  /\ \/ pc' = "select" /\ UNCHANGED result
     \/ End("failed")
  /\ UNCHANGED <<mode, backoff, canceled, gen, target, fw, watch, channels, runtime,
                 pods, cause>>

Listed == {p \in Pods : pods[p] # "absent"}
Ready  == {p \in Pods : pods[p] = "ready"}
Alive  == {p \in Pods : pods[p] \in {"pending", "running", "ready"}}

\* FindPodByLabels: a ready pod, else one that is not terminated, else any.
Preferred ==
  IF Ready # {} THEN Ready ELSE IF Alive # {} THEN Alive ELSE Listed

SelectPod ==
  /\ pc = "select"
  /\ \/ \E p \in Preferred :
          /\ gen < MaxForwards
          /\ gen' = gen + 1
          /\ target' = [target EXCEPT ![gen'] = p]
          /\ pc' = "open"
          /\ cause' = cause \cap {"canceled"}
          /\ UNCHANGED result
     \/ End("failed") /\ UNCHANGED <<gen, target, cause>>
  /\ UNCHANGED <<mode, backoff, canceled, fw, watch, channels, runtime, pods>>

\* PortForwardMulti up to its goroutines: the pod's phase must be Running,
\* which it also is while the pod is being deleted.
OpenForward ==
  /\ pc = "open"
  /\ \/ /\ pods[target[gen]] \in {"running", "ready", "deleting"}
        /\ fw' = [fw EXCEPT ![gen] = "start"]
        /\ watch' = [watch EXCEPT ![gen] = TRUE]
        /\ pc' = "await"
        /\ UNCHANGED result
     \/ End("failed") /\ UNCHANGED <<fw, watch>>
  /\ UNCHANGED <<mode, backoff, canceled, gen, target, channels, runtime, pods, cause>>

\* Mutant of AwaitReady: the back-off is not reset.
AwaitReadyUnreset ==
  /\ pc = "await"
  /\ up[gen] # {}
  /\ pc' = CASE mode = "hold" -> "hold" [] mode = "command" -> "dial" [] OTHER -> "command"
  /\ UNCHANGED <<mode, result, backoff, canceled, gen, target, fw, watch, channels, runtime,
                 pods, cause>>

\* The final select of PortForwardMulti: readyChan; the tunnel is established.
AwaitReady ==
  /\ pc = "await"
  /\ up[gen] # {}
  /\ backoff' = 1
  /\ pc' = CASE mode = "hold" -> "hold" [] mode = "command" -> "dial" [] OTHER -> "command"
  /\ UNCHANGED <<mode, result, canceled, gen, target, fw, watch, channels, runtime,
                 pods, cause>>

\* ... errChan: the error is taken out of it.
AwaitError ==
  /\ pc = "await"
  /\ err[gen] # "none"
  /\ err' = [err EXCEPT ![gen] = "none"]
  /\ Stop(gen)
  /\ End("failed")
  /\ UNCHANGED <<mode, backoff, canceled, gen, target, fw, watch, up, runtime, pods, cause>>

\* ... the context, or 30 seconds.  Nobody waits for the forwarder.
AwaitGiveUp ==
  /\ pc = "await"
  /\ Stop(gen)
  /\ End("failed")
  /\ UNCHANGED <<mode, backoff, canceled, gen, target, fw, watch, err, up, runtime,
                 pods, cause>>

\* The command is over, or not started: StopFunc, then wait for doneChan.
Finish(r) ==
  /\ pc' = "stop"
  /\ result' = r
  /\ Stop(gen)
  /\ UNCHANGED <<mode, backoff, canceled, gen, target, fw, watch, err, up, runtime,
                 pods, cause>>

\* waitForTunnelReady polls the first port only.  When the forwarder could not
\* listen on it, somebody else did, and may accept the connection.
DialReady ==
  /\ pc = "dial"
  /\ First \in up[gen] => fw[gen] = "serve"
  /\ pc' = "command"
  /\ UNCHANGED <<mode, result, backoff, canceled, gen, target, fw, watch, channels,
                 runtime, pods, cause>>

DialGiveUp == pc = "dial" /\ Finish("failed")

\* Mutant of CommandEnds: the deferred stop of the tunnel is left out.
CommandEndsUnstopped ==
  /\ pc = "command"
  /\ pc' = "stop" /\ result' = "exit"
  /\ UNCHANGED <<mode, backoff, canceled, gen, target, fw, watch, channels, runtime,
                 pods, cause>>

\* runSubshellCommand returns, also because the context is done.  box ssh does
\* not wait for the forwarder.
CommandEnds ==
  /\ pc = "command"
  /\ \/ mode = "command" /\ Finish("exit")
     \/ /\ mode = "ssh"
        /\ Stop(gen)
        /\ End("exit")
        /\ UNCHANGED <<mode, backoff, canceled, gen, target, fw, watch, err, up, runtime,
                       pods, cause>>

\* Mutant of Done: the deferred close runs before the handlers are restored.
DoneFirst(g) == fw[g] \in {"restore", "done"}

\* doneChan is closed.
Done(g) == fw[g] = "done"

StopDone ==
  /\ pc = "stop"
  /\ Done(gen)
  /\ pc' = "ended"
  /\ UNCHANGED <<mode, result, backoff, canceled, gen, target, fw, watch, channels,
                 runtime, pods, cause>>

\* Mutant of HoldCancel: Ctrl+C does not wait for the forwarder.
HoldCancelAtOnce ==
  /\ pc = "hold" /\ canceled
  /\ Stop(gen)
  /\ End("ok")
  /\ UNCHANGED <<mode, backoff, canceled, gen, target, fw, watch, err, up, runtime,
                 pods, cause>>

\* Interactive mode: Ctrl+C.
HoldCancel == pc = "hold" /\ canceled /\ Finish("ok")

\* Mutant of HoldDone: a lost connection counts as an expected stop.
HoldDoneAny ==
  /\ pc = "hold"
  /\ Done(gen)
  /\ Stop(gen)
  /\ End("ok")
  /\ UNCHANGED <<mode, backoff, canceled, gen, target, fw, watch, err, up, runtime,
                 pods, cause>>

\* Interactive mode: the forwarder has ended.  Without an error somebody stopped
\* it; a lost connection is retried.
HoldDone ==
  /\ pc = "hold"
  /\ Done(gen)
  /\ Stop(gen)
  /\ err' = [err EXCEPT ![gen] = "none"]
  /\ IF err[gen] = "lost" THEN pc' = "backoff" /\ UNCHANGED result ELSE End("ok")
  /\ UNCHANGED <<mode, backoff, canceled, gen, target, fw, watch, up, runtime, pods, cause>>

Doubled(b) == IF b >= 5 THEN b ELSE IF 2 * b > 5 THEN 5 ELSE 2 * b

Retry ==
  /\ pc = "backoff"
  /\ backoff' = Doubled(backoff)
  /\ pc' = "select"
  /\ UNCHANGED <<mode, result, canceled, gen, target, fw, watch, channels, runtime,
                 pods, cause>>

RetryCanceled ==
  /\ pc = "backoff"
  /\ canceled
  /\ End("ok")
  /\ UNCHANGED <<mode, backoff, canceled, gen, target, fw, watch, channels, runtime,
                 pods, cause>>

Command ==
  \/ Resolve \/ SelectPod \/ OpenForward \/ AwaitReady \/ AwaitError \/ AwaitGiveUp
  \/ DialReady \/ DialGiveUp \/ CommandEnds \/ StopDone
  \/ HoldCancel \/ HoldDone \/ Retry \/ RetryCanceled

-----------------------------------------------------------------------------
(* The forwarder of generation g.  Goroutines end with the process.          *)

Forward(g, from, to) ==
  /\ pc # "ended"
  /\ fw[g] = from
  /\ fw' = [fw EXCEPT ![g] = to]
  /\ UNCHANGED <<mode, pc, result, backoff, canceled, gen, target, watch, stopped,
                 pods, cause>>

\* Only app tunnel passes an ErrOut.
SwapHandlers(g) ==
  /\ Forward(g, "start", "dial")
  /\ IF mode = "ssh" THEN UNCHANGED runtime
     ELSE handlers' = "tunnel" /\ prev' = [prev EXCEPT ![g] = handlers]
  /\ UNCHANGED <<err, up>>

\* ForwardPorts: the connection is upgraded and at least one port is free; then
\* readyChan is closed, whether or not it was stopped meanwhile.
DialOK(g) ==
  /\ Forward(g, "dial", "serve")
  /\ \E ps \in (SUBSET Ports) \ {{}} : up' = [up EXCEPT ![g] = ps]
  /\ UNCHANGED <<err, runtime>>

DialFails(g) ==
  /\ Forward(g, "dial", "restore")
  /\ err' = [err EXCEPT ![g] = "refused"]
  /\ UNCHANGED <<up, runtime>>

ServeStopped(g) ==
  /\ stopped[g]
  /\ Forward(g, "serve", "restore")
  /\ UNCHANGED <<err, up, runtime>>

\* The stream was closed: ErrLostConnectionToPod.
ServeLost(g) ==
  /\ g < MaxForwards
  /\ Forward(g, "serve", "restore")
  /\ err' = [err EXCEPT ![g] = "lost"]
  /\ UNCHANGED <<up, runtime>>

\* The deferred calls: restore the handlers, then close doneChan.
RestoreHandlers(g) ==
  /\ Forward(g, "restore", "done")
  /\ handlers' = IF mode = "ssh" THEN handlers ELSE prev[g]
  /\ UNCHANGED <<err, up, prev>>

Forwarder(g) ==
  \/ SwapHandlers(g) \/ DialOK(g) \/ DialFails(g) \/ ServeStopped(g) \/ ServeLost(g)
  \/ RestoreHandlers(g)

-----------------------------------------------------------------------------
(* The watcher of generation g: every two seconds it reads the pod, and any  *)
(* error of that read counts as the pod's end.                               *)

Unwatch(g) ==
  /\ pc # "ended"
  /\ watch[g]
  /\ watch' = [watch EXCEPT ![g] = FALSE]
  /\ UNCHANGED <<mode, pc, result, backoff, canceled, gen, target, fw, err, up, runtime, pods>>

Terminated(p) == pods[p] \in {"absent", "deleting", "over"}

\* Only the watcher of the current generation gives a reason to end.
Because(g, c) == cause' = IF g = gen THEN cause \cup {c} ELSE cause

\* Mutant of WatchSeesEnd: the deletion timestamp is not looked at.
WatchSeesOver(g) ==
  /\ Unwatch(g)
  /\ pods[target[g]] \in {"absent", "over"}
  /\ Stop(g)
  /\ Because(g, "pod")

WatchSeesEnd(g) ==
  /\ Unwatch(g)
  /\ Terminated(target[g])
  /\ Stop(g)
  /\ Because(g, "pod")

WatchFails(g) ==
  /\ Unwatch(g)
  /\ Stop(g)
  /\ Because(g, "api")

\* The context is done, or doneChan is closed.
WatchEnds(g) ==
  /\ canceled \/ Done(g)
  /\ Unwatch(g)
  /\ UNCHANGED <<stopped, cause>>

Watcher(g) == WatchSeesEnd(g) \/ WatchFails(g) \/ WatchEnds(g)

-----------------------------------------------------------------------------
(* The user and the cluster.                                                 *)

Cancel ==
  /\ ~canceled
  /\ pc # "ended"
  /\ canceled' = TRUE
  /\ cause' = cause \cup {"canceled"}
  /\ UNCHANGED <<mode, pc, result, backoff, gen, target, fw, watch, channels, runtime, pods>>

\* What can become of a pod.
Turns(s) ==
  CASE s = "absent"   -> {"pending"}
    [] s = "pending"  -> {"running", "deleting"}
    [] s = "running"  -> {"ready", "over", "deleting"}
    [] s = "ready"    -> {"running", "over", "deleting"}
    [] s = "over"     -> {"deleting"}
    [] s = "deleting" -> {"absent"}

PodTurns(p) ==
  /\ pc # "ended"
  /\ \E s \in Turns(pods[p]) : pods' = [pods EXCEPT ![p] = s]
  /\ UNCHANGED <<mode, pc, result, backoff, canceled, gen, target, fw, watch, channels,
                 runtime, cause>>

-----------------------------------------------------------------------------

Next ==
  \/ Command
  \/ \E g \in Gens : Forwarder(g) \/ Watcher(g)
  \/ Cancel
  \/ \E p \in Pods : PodTurns(p)

Spec == Init /\ [][Next]_vars

\* The command's calls return or are cut off by their context or timeout; the
\* goroutines are scheduled; ForwardPorts returns from its dial, and when stopped.
\* The watcher ticks.  Neither a lost connection nor a failing read is required.
\* The command run over the tunnel ends (CommandEnds), if only when it is killed.
FairSpec ==
  /\ Spec
  /\ WF_vars(Command)
  /\ \A g \in Gens :
       /\ WF_vars(SwapHandlers(g))
       /\ WF_vars(DialOK(g) \/ DialFails(g))
       /\ WF_vars(ServeStopped(g))
       /\ WF_vars(RestoreHandlers(g))
       /\ WF_vars(WatchSeesEnd(g))
       /\ WF_vars(WatchEnds(g))

-----------------------------------------------------------------------------
(* Properties.                                                               *)

\* Nobody at work: no forwarder between the swap of the handlers and doneChan.
Working(g) == fw[g] \in {"dial", "serve", "restore"}

\* PortForwardMulti (client_port_forward.go:244): the process-wide handlers are
\* the program's own whenever no forwarder is at work, over any number of
\* retries: no forwarder takes another one's handlers for the program's.
HandlersRestored == (\A g \in Gens : ~Working(g)) => handlers = "own"

\* Tunnel (tunnel.go:318): when app tunnel ends without an error no forwarder is
\* left behind, whatever stopped it, and its port is free again.
NothingLeft ==
  pc = "ended" /\ result \in {"ok", "exit"} /\ mode # "ssh" =>
    \A g \in Gens : fw[g] \in {"idle", "done"}

\* Both (client_port_forward.go:244, tunnel.go:318): what a forwarder took it has
\* given back.
CleansUp == HandlersRestored /\ NothingLeft

\* Tunnel (tunnel.go:345): an interactive tunnel only ends with success after
\* Ctrl+C or because its watcher stopped it; a lost connection never ends it.
OkHasCause == pc = "ended" /\ result = "ok" => cause # {}

\* Ctrl+C (cmd_app.go:76): every command ends, in any mode and at any moment: no
\* wait for a channel that nobody will close.
CancelEnds == canceled ~> pc = "ended"

\* The watcher (client_port_forward.go:273): an interactive tunnel does not stay
\* with a pod that has terminated for good.
LeavesDeadPod == []<>~(pc = "hold" /\ Terminated(target[gen]))

-----------------------------------------------------------------------------
(* The inductive invariant: the three safety properties hold at the end      *)
(* because of what every control point knows of the generations.             *)

\* Where the generations are: the past ones are over, the future ones unused.
GenerationsInv ==
  /\ \A g \in Gens : g < gen => fw[g] = "done"
  /\ \A g \in Gens : g > gen => fw[g] = "idle" /\ ~stopped[g] /\ err[g] = "none" /\ up[g] = {}
  /\ \A g \in Gens : watch[g] => fw[g] # "idle"
  /\ pc \notin {"resolve", "select", "ended"} => gen \in Gens
  /\ pc = "resolve" => gen = 0
  /\ pc = "select" => gen = 0 \/ fw[gen] = "done"
  /\ pc = "backoff" => fw[gen] = "done"
  /\ pc = "open" => fw[gen] = "idle" /\ ~stopped[gen] /\ err[gen] = "none" /\ up[gen] = {}
  /\ pc \in {"await", "dial", "command", "hold", "stop"} => fw[gen] # "idle"

\* Who holds the handlers: the current forwarder, and it gives back the program's.
HandlersInv ==
  /\ handlers = "tunnel" <=> mode # "ssh" /\ gen \in Gens /\ Working(gen)
  /\ \A g \in Gens : mode # "ssh" /\ Working(g) => prev[g] = "own"

\* Why a forwarder is stopped while the tunnel is waiting for it.
CauseInv ==
  /\ canceled => "canceled" \in cause
  /\ pc \in {"await", "hold"} /\ stopped[gen] => cause # {}
  /\ pc \in {"await", "hold"} /\ fw[gen] \in {"restore", "done"} /\ err[gen] = "none" =>
       cause # {}
  /\ pc = "hold" => up[gen] # {}
  /\ \A g \in Gens : err[g] = "refused" => up[g] = {}
  /\ \A g \in Gens : fw[g] \in {"start", "dial"} => up[g] = {} /\ err[g] # "refused"

\* How the command ends.
ResultInv ==
  /\ pc \notin {"stop", "ended"} => result = "none"
  /\ result = "ok" => cause # {}
  /\ pc = "ended" /\ result \in {"ok", "exit"} /\ mode # "ssh" => gen \in Gens /\ fw[gen] = "done"

\* PortForwardMulti and Tunnel (client_port_forward.go:143, tunnel.go:283): at any
\* point of the retries one forwarder at most is alive, it is the current one, the
\* handlers are its own, and a wait for it has a reason to end.
Inv == GenerationsInv /\ HandlersInv /\ CauseInv /\ ResultInv

-----------------------------------------------------------------------------
(* What the comments say and the code does not do.                           *)

\* tunnel.go:182: an interactive tunnel blocks until Ctrl+C or until the target
\* pod terminates.
OkOnlyAtTheEnd ==
  pc = "ended" /\ result = "ok" => cause \cap {"canceled", "pod"} # {}

\* tunnel.go:352: the back-off that avoids a tight restart loop grows.
BackoffGrows == pc = "backoff" /\ gen > 1 => backoff > 1
=============================================================================
