---------------------------- MODULE Tunnel_proofs ----------------------------
(***************************************************************************)
(* The invariant of Tunnel and the safety properties it implies, for any   *)
(* pods, ports and number of retries.                                      *)
(*                                                                         *)
(* Inv has four parts: where the generations are, who holds the handlers,  *)
(* why a forwarder was stopped, and how the command ends.  A step of the   *)
(* command moves pc and works on the current generation.  A step of a      *)
(* forwarder or watcher may be one of a past generation: GenerationsInv    *)
(* says that a past forwarder is over, and so it is only the watcher, whose*)
(* stop reaches nobody.                                                    *)
(***************************************************************************)
EXTENDS Tunnel, TLAPS

-----------------------------------------------------------------------------
(* Types.                                                                    *)

\* The tunnel starts with nothing forwarded.
LEMMA InitTypeOK == Init => TypeOK
  <1> SUFFICES ASSUME Init PROVE TypeOK
    OBVIOUS
  <1>1. pods \in [Pods -> Phases]
    BY DEF Init, Phases
  <1>2. gen \in 0 .. MaxForwards
    BY TunnelAssumption DEF Init
  <1>3. watch \in [Gens -> BOOLEAN] /\ stopped \in [Gens -> BOOLEAN] /\ canceled \in BOOLEAN
    BY Zenon DEF Init
  <1> QED BY <1>1, <1>2, <1>3 DEF Init, TypeOK, Points

\* Closing a stop channel keeps its type.
LEMMA StopTypes ==
  ASSUME TypeOK, NEW g \in Gens, Stop(g) PROVE stopped' \in [Gens -> BOOLEAN]
  BY DEF TypeOK, Stop

\* A reason to end keeps the type of the reasons.
LEMMA BecauseTypes ==
  ASSUME TypeOK, NEW g \in Gens, NEW c \in {"canceled", "pod", "api"}, Because(g, c)
  PROVE  cause' \subseteq {"canceled", "pod", "api"}
  BY DEF TypeOK, Because

\* The current generation exists once a pod was chosen.
LEMMA CurrentIsGeneration ==
  ASSUME Inv, pc \notin {"resolve", "select", "ended"} PROVE gen \in Gens
  BY DEF Inv, GenerationsInv

\* Every step of the command keeps the types.
LEMMA CommandTypeOK ==
  ASSUME TypeOK, Inv, Command PROVE TypeOK'
  <1> USE DEF channels, runtime
  <1>1. CASE Resolve
    BY <1>1 DEF TypeOK, Resolve, End, Points
  <1>2. CASE SelectPod
    <2>1. PICK p \in Preferred \cup {None} :
            \/ /\ p \in Preferred /\ gen < MaxForwards /\ gen' = gen + 1
               /\ target' = [target EXCEPT ![gen'] = p]
            \/ gen' = gen /\ target' = target
      BY <1>2 DEF SelectPod
    <2>2. Preferred \subseteq Pods
      BY DEF Preferred, Ready, Alive, Listed
    <2>3. gen' \in 0 .. MaxForwards
      BY <2>1, TunnelAssumption DEF TypeOK
    <2>4. target' \in [Gens -> Pods \cup {None}]
      BY <2>1, <2>2 DEF TypeOK
    <2>5. pc' \in Points \ {"hold", "backoff"} /\ result' \in {"none", "ok", "exit", "failed"}
      BY <1>2 DEF TypeOK, SelectPod, End, Points
    <2>6. cause' \subseteq {"canceled", "pod", "api"}
      BY <1>2 DEF TypeOK, SelectPod
    <2> QED BY <1>2, <2>3, <2>4, <2>5, <2>6 DEF TypeOK, SelectPod
  <1>3. CASE OpenForward
    <2>1. gen \in Gens
      BY <1>3, CurrentIsGeneration DEF OpenForward
    <2>2. watch' \in [Gens -> BOOLEAN]
      BY <1>3, <2>1 DEF OpenForward, TypeOK
    <2>3. fw' \in [Gens -> {"idle", "start", "dial", "serve", "restore", "done"}]
      BY <1>3, <2>1 DEF OpenForward, TypeOK
    <2>4. pc' \in Points \ {"hold", "backoff"} /\ result' \in {"none", "ok", "exit", "failed"}
      BY <1>3 DEF OpenForward, End, TypeOK, Points
    <2> QED BY <1>3, <2>2, <2>3, <2>4 DEF TypeOK, OpenForward
  <1>4. CASE AwaitReady
    <2>1. pc' \in Points
      BY <1>4 DEF AwaitReady, Points
    <2> QED BY <1>4, <2>1 DEF TypeOK, AwaitReady
  <1>5. CASE AwaitError
    <2>1. gen \in Gens
      BY <1>5, CurrentIsGeneration DEF AwaitError
    <2>2. stopped' \in [Gens -> BOOLEAN]
      BY <1>5, <2>1, StopTypes DEF AwaitError
    <2>3. err' \in [Gens -> {"none", "refused", "lost"}]
      BY <1>5, <2>1 DEF AwaitError, TypeOK
    <2> QED BY <1>5, <2>2, <2>3 DEF TypeOK, AwaitError, End, Points
  <1>6. CASE AwaitGiveUp
    <2>1. stopped' \in [Gens -> BOOLEAN]
      BY <1>6, CurrentIsGeneration, StopTypes DEF AwaitGiveUp
    <2> QED BY <1>6, <2>1 DEF TypeOK, AwaitGiveUp, End, Points
  <1>7. CASE DialReady
    BY <1>7 DEF TypeOK, DialReady, Points
  <1>8. CASE DialGiveUp
    <2>1. stopped' \in [Gens -> BOOLEAN]
      BY <1>8, CurrentIsGeneration, StopTypes DEF DialGiveUp, Finish
    <2> QED BY <1>8, <2>1 DEF TypeOK, DialGiveUp, Finish, Points
  <1>9. CASE CommandEnds
    <2>1. stopped' \in [Gens -> BOOLEAN]
      BY <1>9, CurrentIsGeneration, StopTypes DEF CommandEnds, Finish
    <2> QED BY <1>9, <2>1 DEF TypeOK, CommandEnds, Finish, End, Points
  <1>10. CASE StopDone
    BY <1>10 DEF TypeOK, StopDone, Points
  <1>11. CASE HoldCancel
    <2>1. stopped' \in [Gens -> BOOLEAN]
      BY <1>11, CurrentIsGeneration, StopTypes DEF HoldCancel, Finish
    <2> QED BY <1>11, <2>1 DEF TypeOK, HoldCancel, Finish, Points
  <1>12. CASE HoldDone
    <2>1. gen \in Gens
      BY <1>12, CurrentIsGeneration DEF HoldDone
    <2>2. stopped' \in [Gens -> BOOLEAN]
      BY <1>12, <2>1, StopTypes DEF HoldDone
    <2>3. err' \in [Gens -> {"none", "refused", "lost"}]
      BY <1>12, <2>1 DEF HoldDone, TypeOK
    <2>4. pc' \in Points /\ result' \in {"none", "ok", "exit", "failed"}
      BY <1>12 DEF HoldDone, End, TypeOK, Points
    <2> QED BY <1>12, <2>2, <2>3, <2>4 DEF TypeOK, HoldDone
  <1>13. CASE Retry
    <2>1. backoff' = 2
      BY <1>13 DEF Retry, Doubled, TypeOK
    <2> QED BY <1>13, <2>1 DEF TypeOK, Retry, Points
  <1>14. CASE RetryCanceled
    BY <1>14 DEF TypeOK, RetryCanceled, End, Points
  <1> QED
    BY <1>1, <1>2, <1>3, <1>4, <1>5, <1>6, <1>7, <1>8, <1>9, <1>10, <1>11, <1>12,
       <1>13, <1>14 DEF Command

\* Every step of a forwarder keeps the types.
LEMMA ForwarderTypeOK ==
  ASSUME TypeOK, NEW g \in Gens, Forwarder(g) PROVE TypeOK'
  <1> USE DEF Forward
  <1>1. fw' \in [Gens -> {"idle", "start", "dial", "serve", "restore", "done"}]
    BY DEF TypeOK, Forwarder, SwapHandlers, DialOK, DialFails, ServeStopped, ServeLost,
           RestoreHandlers
  <1>2. err' \in [Gens -> {"none", "refused", "lost"}]
    BY DEF TypeOK, Forwarder, SwapHandlers, DialOK, DialFails, ServeStopped, ServeLost,
           RestoreHandlers
  <1>3. up' \in [Gens -> SUBSET Ports]
    BY DEF TypeOK, Forwarder, SwapHandlers, DialOK, DialFails, ServeStopped, ServeLost,
           RestoreHandlers
  <1>4. handlers' \in {"own", "tunnel"} /\ prev' \in [Gens -> {"own", "tunnel"}]
    BY DEF TypeOK, Forwarder, SwapHandlers, DialOK, DialFails, ServeStopped, ServeLost,
           RestoreHandlers, runtime
  <1>5. UNCHANGED <<mode, pc, result, backoff, canceled, gen, target, watch, stopped,
                    pods, cause>>
    BY DEF Forwarder, SwapHandlers, DialOK, DialFails, ServeStopped, ServeLost,
           RestoreHandlers
  <1> QED BY <1>1, <1>2, <1>3, <1>4, <1>5 DEF TypeOK

\* Every step of a watcher keeps the types.
LEMMA WatcherTypeOK ==
  ASSUME TypeOK, NEW g \in Gens, Watcher(g) PROVE TypeOK'
  <1>1. watch' \in [Gens -> BOOLEAN]
    BY DEF Watcher, WatchSeesEnd, WatchFails, WatchEnds, Unwatch, TypeOK
  <1>2. stopped' \in [Gens -> BOOLEAN]
    BY StopTypes DEF Watcher, WatchSeesEnd, WatchFails, WatchEnds, TypeOK
  <1>3. cause' \subseteq {"canceled", "pod", "api"}
    BY BecauseTypes DEF Watcher, WatchSeesEnd, WatchFails, WatchEnds, TypeOK
  <1>4. UNCHANGED <<mode, pc, result, backoff, canceled, gen, target, fw, err, up, runtime,
                    pods>>
    BY DEF Watcher, WatchSeesEnd, WatchFails, WatchEnds, Unwatch
  <1> QED BY <1>1, <1>2, <1>3, <1>4 DEF TypeOK, runtime

\* The user and the cluster keep the types.
LEMMA WorldTypeOK ==
  ASSUME TypeOK, Cancel \/ \E p \in Pods : PodTurns(p) PROVE TypeOK'
  <1> USE DEF channels, runtime
  <1>1. CASE Cancel
    BY <1>1 DEF Cancel, TypeOK
  <1>2. ASSUME NEW p \in Pods, PodTurns(p) PROVE TypeOK'
    <2>1. \A s \in Phases : Turns(s) \subseteq Phases
      BY DEF Phases, Turns
    <2>2. pods' \in [Pods -> Phases]
      BY <1>2, <2>1 DEF PodTurns, TypeOK
    <2> QED BY <1>2, <2>2 DEF PodTurns, TypeOK
  <1> QED BY <1>1, <1>2

-----------------------------------------------------------------------------
(* The invariant.                                                            *)

\* The program starts with its own handlers and no forwarder.
LEMMA InitInv == Init => Inv
  <1> SUFFICES ASSUME Init PROVE Inv
    OBVIOUS
  <1>1. \A g \in Gens : fw[g] = "idle" /\ ~stopped[g] /\ err[g] = "none" /\ up[g] = {}
    BY DEF Init
  <1>2. 0 \notin Gens /\ \A g \in Gens : ~(g < 0)
    BY TunnelAssumption DEF Gens
  <1> QED
    BY <1>1, <1>2 DEF Init, Inv, GenerationsInv, HandlersInv, CauseInv, ResultInv, Working

\* The current generation, its predecessors and its successors.
LEMMA GenerationOrder ==
  ASSUME TypeOK
  PROVE  /\ gen \in Nat
         /\ \A g \in Gens : g \in Nat
         /\ gen \in Gens <=> gen # 0
  BY TunnelAssumption DEF TypeOK, Gens

\* Choosing a pod opens the next generation, the previous one being over.
LEMMA SelectInv ==
  ASSUME TypeOK, Inv, SelectPod PROVE Inv'
  <1> USE GenerationOrder DEF channels, runtime
  <1>1. CASE gen' = gen + 1 /\ pc' = "open" /\ gen < MaxForwards /\ UNCHANGED result
                /\ cause' = cause \cap {"canceled"}
    <2>1. gen' \in Gens
      BY <1>1, TunnelAssumption DEF Gens
    <2>2. gen # 0 => fw[gen] = "done"
      BY DEF Inv, GenerationsInv, SelectPod
    <2>3. \A g \in Gens : g < gen' => fw[g] = "done"
      BY <1>1, <2>2 DEF Inv, GenerationsInv
    <2>4. fw[gen'] = "idle" /\ ~stopped[gen'] /\ err[gen'] = "none" /\ up[gen'] = {}
      BY <1>1, <2>1 DEF Inv, GenerationsInv
    <2>5. GenerationsInv'
      BY <1>1, <2>1, <2>3, <2>4 DEF Inv, GenerationsInv, SelectPod
    <2>6. handlers = "own"
      BY <2>2 DEF Inv, HandlersInv, SelectPod, Working, TypeOK
    <2>7. HandlersInv'
      BY <1>1, <2>4, <2>6 DEF Inv, HandlersInv, SelectPod, Working
    <2>8. CauseInv'
      BY <1>1 DEF Inv, CauseInv, SelectPod
    <2>9. ResultInv'
      BY <1>1 DEF Inv, ResultInv, SelectPod
    <2> QED BY <2>5, <2>7, <2>8, <2>9 DEF Inv
  <1>2. CASE End("failed") /\ UNCHANGED <<gen, target, cause>>
    BY <1>2 DEF SelectPod, End, Inv, GenerationsInv, HandlersInv, CauseInv, ResultInv,
                Working
  <1> QED BY <1>1, <1>2 DEF SelectPod

\* Starting the goroutines.
LEMMA OpenInv ==
  ASSUME TypeOK, Inv, OpenForward PROVE Inv'
  <1> USE GenerationOrder DEF channels, runtime
  <1>1. gen \in Gens
    BY CurrentIsGeneration DEF OpenForward
  <1>2. CASE /\ fw' = [fw EXCEPT ![gen] = "start"] /\ watch' = [watch EXCEPT ![gen] = TRUE]
             /\ pc' = "await" /\ UNCHANGED result
    <2>1. /\ fw'[gen] = "start"
          /\ \A g \in Gens : g # gen => fw'[g] = fw[g] /\ watch'[g] = watch[g]
      BY <1>1, <1>2 DEF TypeOK
    <2>2. fw[gen] = "idle" /\ ~stopped[gen] /\ err[gen] = "none" /\ up[gen] = {}
      BY DEF OpenForward, Inv, GenerationsInv
    <2>3. GenerationsInv'
      BY <1>1, <1>2, <2>1 DEF OpenForward, Inv, GenerationsInv
    <2>4. HandlersInv'
      BY <2>1, <2>2 DEF OpenForward, Inv, HandlersInv, Working
    <2>5. CauseInv'
      BY <1>2, <2>1, <2>2 DEF OpenForward, Inv, CauseInv
    <2>6. ResultInv'
      BY <1>2 DEF OpenForward, Inv, ResultInv
    <2> QED BY <2>3, <2>4, <2>5, <2>6 DEF Inv
  <1>3. CASE End("failed") /\ UNCHANGED <<fw, watch>>
    BY <1>3 DEF OpenForward, End, Inv, GenerationsInv, HandlersInv, CauseInv, ResultInv,
                Working
  <1> QED BY <1>2, <1>3 DEF OpenForward

\* Leaving a wait with an error, or ending the command: the current forwarder is
\* told to stop and the process ends or waits for it.
LEMMA EndingInv ==
  ASSUME TypeOK, Inv, gen \in Gens, fw[gen] # "idle",
         Stop(gen), pc' \in {"stop", "ended"}, result' \in {"ok", "exit", "failed"},
         result' = "ok" => cause # {},
         pc' = "ended" /\ mode # "ssh" /\ result' # "failed" => fw[gen] = "done",
         err' = err \/ err' = [err EXCEPT ![gen] = "none"],
         UNCHANGED <<mode, canceled, gen, fw, watch, up, handlers, prev, cause>>
  PROVE  Inv'
  <1> USE GenerationOrder
  <1>1. \A g \in Gens : g # gen => stopped'[g] = stopped[g] /\ err'[g] = err[g]
    BY DEF Stop, TypeOK
  <1>2. \A g \in Gens : err'[g] = "refused" => err[g] = "refused"
    BY <1>1 DEF TypeOK
  <1>3. GenerationsInv'
    BY <1>1 DEF Inv, GenerationsInv
  <1>4. HandlersInv'
    BY DEF Inv, HandlersInv, Working
  <1>5. CauseInv'
    BY <1>2 DEF Inv, CauseInv
  <1>6. ResultInv'
    BY DEF Inv, ResultInv
  <1> QED BY <1>3, <1>4, <1>5, <1>6 DEF Inv

\* Steps of the command that only move to the next control point.
LEMMA MovingInv ==
  ASSUME TypeOK, Inv,
         \/ Resolve \/ AwaitReady \/ DialReady \/ StopDone \/ Retry \/ RetryCanceled
  PROVE  Inv'
  <1> USE GenerationOrder DEF channels, runtime
  <1>1. UNCHANGED <<mode, canceled, gen, fw, watch, stopped, err, up, handlers, prev, cause>>
    BY DEF Resolve, AwaitReady, DialReady, StopDone, Retry, RetryCanceled
  <1>2. HandlersInv'
    BY <1>1 DEF Inv, HandlersInv, Working
  <1>3. GenerationsInv'
    BY <1>1 DEF Inv, GenerationsInv, Resolve, End, AwaitReady, DialReady, StopDone, Retry,
                RetryCanceled
  <1>4. CauseInv'
    BY <1>1 DEF Inv, CauseInv, Resolve, End, AwaitReady, DialReady, StopDone, Retry,
                RetryCanceled
  <1>5. CASE Resolve \/ AwaitReady \/ DialReady \/ Retry
    <2>1. ResultInv'
      BY <1>1, <1>5 DEF Inv, ResultInv, Resolve, End, AwaitReady, DialReady, Retry
    <2> QED BY <1>2, <1>3, <1>4, <2>1 DEF Inv
  <1>6. CASE StopDone
    <2>1. gen \in Gens
      BY <1>6, CurrentIsGeneration DEF StopDone
    <2>2. ResultInv'
      BY <1>1, <1>6, <2>1 DEF Inv, ResultInv, StopDone, Done
    <2> QED BY <1>2, <1>3, <1>4, <2>2 DEF Inv
  <1>7. CASE RetryCanceled
    <2>1. gen \in Gens
      BY <1>7, CurrentIsGeneration DEF RetryCanceled
    <2>2. fw[gen] = "done" /\ "canceled" \in cause
      BY <1>7 DEF RetryCanceled, Inv, GenerationsInv, CauseInv
    <2>3. ResultInv'
      BY <1>1, <1>7, <2>1, <2>2 DEF Inv, ResultInv, RetryCanceled, End
    <2> QED BY <1>2, <1>3, <1>4, <2>3 DEF Inv
  <1> QED BY <1>5, <1>6, <1>7

\* The forwarder of a retried or ended interactive tunnel is over.
LEMMA HoldDoneInv ==
  ASSUME TypeOK, Inv, HoldDone PROVE Inv'
  <1> USE GenerationOrder
  <1>1. gen \in Gens /\ fw[gen] = "done"
    BY CurrentIsGeneration DEF HoldDone, Done
  <1>2. CASE err[gen] = "lost"
    <2>1. \A g \in Gens : g # gen => stopped'[g] = stopped[g] /\ err'[g] = err[g]
      BY DEF HoldDone, Stop, TypeOK
    <2>2. pc' = "backoff" /\ UNCHANGED <<mode, result, canceled, gen, fw, watch, up, handlers, prev, cause>>
      BY <1>2 DEF HoldDone, runtime
    <2>3. GenerationsInv'
      BY <1>1, <2>1, <2>2 DEF Inv, GenerationsInv
    <2>4. HandlersInv'
      BY <2>2 DEF Inv, HandlersInv, Working
    <2>5. err'[gen] = "none"
      BY <1>1 DEF HoldDone, TypeOK
    <2>6. CauseInv'
      BY <2>1, <2>2, <2>5 DEF Inv, CauseInv
    <2>7. ResultInv'
      BY <2>2 DEF Inv, ResultInv, HoldDone
    <2> QED BY <2>3, <2>4, <2>6, <2>7 DEF Inv
  <1>3. CASE err[gen] # "lost"
    <2>1. err[gen] = "none"
      BY <1>1, <1>3 DEF TypeOK, Inv, CauseInv, HoldDone
    <2>2. cause # {}
      BY <1>1, <2>1 DEF Inv, CauseInv, HoldDone
    <2>3. Stop(gen) /\ pc' = "ended" /\ result' = "ok" /\ err' = [err EXCEPT ![gen] = "none"]
      BY <1>3 DEF HoldDone, End
    <2>4. UNCHANGED <<mode, canceled, gen, fw, watch, up, handlers, prev, cause>>
      BY DEF HoldDone, runtime
    <2> QED BY <1>1, <2>2, <2>3, <2>4, EndingInv
  <1> QED BY <1>2, <1>3

\* Every step of the command keeps the invariant.
LEMMA CommandInv ==
  ASSUME TypeOK, Inv, Command PROVE Inv'
  <1> USE DEF channels, runtime
  <1>1. CASE AwaitError \/ AwaitGiveUp \/ DialGiveUp \/ CommandEnds \/ HoldCancel
    <2>1. gen \in Gens
      BY <1>1, CurrentIsGeneration DEF AwaitError, AwaitGiveUp, DialGiveUp, CommandEnds,
         HoldCancel
    <2>2. fw[gen] # "idle"
      BY <1>1 DEF AwaitError, AwaitGiveUp, DialGiveUp, CommandEnds, HoldCancel, Inv,
         GenerationsInv
    <2>3. Stop(gen) /\ pc' \in {"stop", "ended"} /\ result' \in {"ok", "exit", "failed"}
      BY <1>1 DEF AwaitError, AwaitGiveUp, DialGiveUp, CommandEnds, HoldCancel, Finish, End
    <2>4. result' = "ok" => cause # {}
      BY <1>1 DEF AwaitError, AwaitGiveUp, DialGiveUp, CommandEnds, HoldCancel, Finish, End,
         Inv, CauseInv
    <2>5. pc' = "ended" /\ mode # "ssh" /\ result' # "failed" => fw[gen] = "done"
      BY <1>1 DEF AwaitError, AwaitGiveUp, DialGiveUp, CommandEnds, HoldCancel, Finish, End
    <2>6. err' = err \/ err' = [err EXCEPT ![gen] = "none"]
      BY <1>1 DEF AwaitError, AwaitGiveUp, DialGiveUp, CommandEnds, HoldCancel, Finish
    <2>7. UNCHANGED <<mode, canceled, gen, fw, watch, up, handlers, prev, cause>>
      BY <1>1 DEF AwaitError, AwaitGiveUp, DialGiveUp, CommandEnds, HoldCancel, Finish
    <2> QED BY <2>1, <2>2, <2>3, <2>4, <2>5, <2>6, <2>7, EndingInv
  <1> QED BY <1>1, SelectInv, OpenInv, MovingInv, HoldDoneInv DEF Command

\* A forwarder at work is the current one.
LEMMA WorkerIsCurrent ==
  ASSUME TypeOK, Inv, NEW g \in Gens, fw[g] \notin {"idle", "done"} PROVE gen = g
  BY GenerationOrder DEF Inv, GenerationsInv

\* Every step of a forwarder keeps the invariant.
LEMMA ForwarderInv ==
  ASSUME TypeOK, Inv, NEW g \in Gens, Forwarder(g) PROVE Inv'
  <1> USE GenerationOrder DEF runtime
  <1>1. /\ pc # "ended" /\ fw[g] \notin {"idle", "done"}
        /\ UNCHANGED <<mode, pc, result, canceled, gen, watch, stopped, cause>>
    BY DEF Forwarder, Forward, SwapHandlers, DialOK, DialFails, ServeStopped, ServeLost,
           RestoreHandlers
  <1>2. gen = g
    BY <1>1, WorkerIsCurrent
  <1>3. /\ \A h \in Gens : h # g => fw'[h] = fw[h] /\ err'[h] = err[h] /\ up'[h] = up[h]
        /\ fw'[g] # "idle"
    BY DEF Forwarder, Forward, SwapHandlers, DialOK, DialFails, ServeStopped, ServeLost,
           RestoreHandlers, TypeOK
  <1>4. pc \notin {"resolve", "select", "open", "backoff"}
    BY <1>1, <1>2 DEF Inv, GenerationsInv
  <1>5. GenerationsInv'
    BY <1>1, <1>2, <1>3, <1>4 DEF Inv, GenerationsInv
  <1>6. ResultInv'
    BY <1>1 DEF Inv, ResultInv
  <1>7. HandlersInv'
    <2>1. \A h \in Gens : h # g => ~Working(h) /\ ~Working(h)'
      BY <1>1, <1>2, <1>3 DEF Working, Inv, GenerationsInv
    <2>2. CASE SwapHandlers(g)
      <3>1. fw'[g] = "dial" /\ ~Working(g)
        BY <2>2 DEF SwapHandlers, Forward, TypeOK, Working
      <3>2. handlers = "own"
        BY <1>2, <3>1 DEF Inv, HandlersInv, TypeOK
      <3>3. mode # "ssh" => handlers' = "tunnel" /\ prev'[g] = "own"
        BY <2>2, <3>2 DEF SwapHandlers, TypeOK
      <3>4. mode = "ssh" => handlers' = "own"
        BY <2>2, <3>2 DEF SwapHandlers
      <3>5. Working(g)'
        BY <3>1 DEF Working
      <3> QED BY <1>1, <1>2, <2>1, <3>3, <3>4, <3>5 DEF HandlersInv
    <2>3. CASE RestoreHandlers(g)
      <3>1. fw'[g] = "done" /\ Working(g)
        BY <2>3 DEF RestoreHandlers, Forward, TypeOK, Working
      <3>2. mode # "ssh" => prev[g] = "own"
        BY <3>1 DEF Inv, HandlersInv
      <3>3. mode = "ssh" => handlers = "own"
        BY DEF Inv, HandlersInv, TypeOK
      <3>4. handlers' = "own"
        BY <2>3, <3>2, <3>3 DEF RestoreHandlers
      <3>5. ~Working(g)'
        BY <3>1 DEF Working
      <3> QED BY <1>1, <1>2, <2>1, <3>4, <3>5 DEF HandlersInv
    <2>4. CASE DialOK(g) \/ DialFails(g) \/ ServeStopped(g) \/ ServeLost(g)
      <3>1. Working(g) /\ Working(g)' /\ UNCHANGED <<handlers, prev>>
        BY <2>4 DEF DialOK, DialFails, ServeStopped, ServeLost, Forward, Working, TypeOK
      <3> QED BY <1>1, <1>2, <2>1, <3>1 DEF HandlersInv, Inv
    <2> QED BY <2>2, <2>3, <2>4 DEF Forwarder
  <1>8. CauseInv'
    <2>1. CASE SwapHandlers(g) \/ DialFails(g)
      <3>1. up[g] = {} /\ up' = up /\ fw'[g] \in {"dial", "restore"}
        BY <2>1 DEF Inv, CauseInv, SwapHandlers, DialFails, Forward, TypeOK
      <3>2. IF fw'[g] = "restore" THEN err'[g] = "refused" ELSE err'[g] # "refused"
        BY <2>1 DEF SwapHandlers, DialFails, Forward, TypeOK, Inv, CauseInv
      <3> QED BY <1>1, <1>2, <1>3, <3>1, <3>2 DEF CauseInv, Inv
    <2>2. CASE DialOK(g)
      <3>1. PICK ps \in (SUBSET Ports) \ {{}} : up' = [up EXCEPT ![g] = ps]
        BY <2>2 DEF DialOK
      <3>4. up'[g] # {}
        <4>1. ps # {}
          OBVIOUS
        <4>2. up'[g] = ps
          BY <3>1 DEF TypeOK
        <4> QED BY <4>1, <4>2
      <3>5. fw'[g] = "serve" /\ err' = err
        BY <2>2 DEF DialOK, Forward, TypeOK
      <3>2. up[g] = {} /\ fw[g] = "dial"
        BY <2>2 DEF DialOK, Forward, Inv, CauseInv
      <3>3. err[g] # "refused"
        BY <3>2 DEF Inv, CauseInv
      <3> QED BY <1>1, <1>2, <1>3, <3>4, <3>5, <3>3 DEF CauseInv, Inv
    <2>3. CASE ServeStopped(g)
      <3>1. stopped[g] /\ err' = err /\ up' = up /\ fw'[g] = "restore"
        BY <2>3 DEF ServeStopped, Forward, TypeOK
      <3> QED BY <1>1, <1>2, <1>3, <3>1 DEF CauseInv, Inv
    <2>4. CASE ServeLost(g)
      <3>1. err'[g] = "lost" /\ up' = up /\ fw'[g] = "restore"
        BY <2>4 DEF ServeLost, Forward, TypeOK
      <3> QED BY <1>1, <1>2, <1>3, <3>1 DEF CauseInv, Inv
    <2>5. CASE RestoreHandlers(g)
      <3>1. err' = err /\ up' = up /\ fw[g] = "restore" /\ fw'[g] = "done"
        BY <2>5 DEF RestoreHandlers, Forward, TypeOK
      <3> QED BY <1>1, <1>2, <1>3, <3>1 DEF CauseInv, Inv
    <2> QED BY <2>1, <2>2, <2>3, <2>4, <2>5 DEF Forwarder
  <1> QED BY <1>5, <1>6, <1>7, <1>8 DEF Inv

\* A watcher that is on, and its forwarder's generation.
LEMMA WatcherInv ==
  ASSUME TypeOK, Inv, NEW g \in Gens, Watcher(g) PROVE Inv'
  <1> USE GenerationOrder DEF runtime
  <1>1. UNCHANGED <<mode, pc, result, canceled, gen, fw, err, up, handlers, prev>>
    BY DEF Watcher, WatchSeesEnd, WatchFails, WatchEnds, Unwatch
  <1>2. cause \subseteq cause'
    BY DEF Watcher, WatchSeesEnd, WatchFails, WatchEnds, Because
  <1>3. \A h \in Gens : h # g => stopped'[h] = stopped[h]
    BY DEF Watcher, WatchSeesEnd, WatchFails, WatchEnds, Stop, TypeOK
  <1>4. g = gen => cause' # {} \/ stopped' = stopped
    BY DEF Watcher, WatchSeesEnd, WatchFails, WatchEnds, Because
  <1>5. fw[g] # "idle" /\ watch'[g] = FALSE /\ \A h \in Gens : h # g => watch'[h] = watch[h]
    BY DEF Watcher, WatchSeesEnd, WatchFails, WatchEnds, Unwatch, TypeOK, Inv, GenerationsInv
  <1>6. GenerationsInv'
    BY <1>1, <1>3, <1>5 DEF Inv, GenerationsInv
  <1>7. HandlersInv'
    BY <1>1 DEF Inv, HandlersInv, Working
  <1>8. CauseInv'
    BY <1>1, <1>2, <1>3, <1>4 DEF Inv, CauseInv, GenerationsInv
  <1>9. ResultInv'
    BY <1>1, <1>2 DEF Inv, ResultInv
  <1> QED BY <1>6, <1>7, <1>8, <1>9 DEF Inv

\* The user and the pods keep the invariant.
LEMMA WorldInv ==
  ASSUME TypeOK, Inv, Cancel \/ \E p \in Pods : PodTurns(p) PROVE Inv'
  <1>1. /\ UNCHANGED <<mode, pc, result, gen, fw, watch, stopped, err, up, handlers, prev>>
        /\ cause \subseteq cause'
        /\ canceled' => canceled \/ "canceled" \in cause'
    BY DEF Cancel, PodTurns, channels, runtime
  <1>2. GenerationsInv' /\ HandlersInv'
    BY <1>1 DEF Inv, GenerationsInv, HandlersInv, Working
  <1>3. CauseInv' /\ ResultInv'
    BY <1>1 DEF Inv, CauseInv, ResultInv
  <1> QED BY <1>2, <1>3 DEF Inv

-----------------------------------------------------------------------------
(* The theorems.                                                             *)

\* TypeOK and Inv are inductive together.
LEMMA Inductive == Spec => [](TypeOK /\ Inv)
  <1>1. TypeOK /\ Inv /\ [Next]_vars => TypeOK' /\ Inv'
    <2> SUFFICES ASSUME TypeOK, Inv, [Next]_vars PROVE TypeOK' /\ Inv'
      OBVIOUS
    <2>1. CASE Command
      BY <2>1, CommandTypeOK, CommandInv
    <2>2. CASE \E g \in Gens : Forwarder(g) \/ Watcher(g)
      BY <2>2, ForwarderTypeOK, ForwarderInv, WatcherTypeOK, WatcherInv
    <2>3. CASE Cancel \/ \E p \in Pods : PodTurns(p)
      BY <2>3, WorldTypeOK, WorldInv
    <2>4. CASE UNCHANGED vars
      BY <2>4 DEF vars, channels, runtime, TypeOK, Inv, GenerationsInv, HandlersInv,
                  CauseInv, ResultInv, Working
    <2> QED BY <2>1, <2>2, <2>3, <2>4 DEF Next
  <1> QED BY <1>1, InitTypeOK, InitInv, PTL DEF Spec

\* Every variable keeps its type.
THEOREM TypeCorrect == Spec => []TypeOK
  BY Inductive, PTL

\* One forwarder at most is alive, and a wait for it has a reason to end
\* (client_port_forward.go:143, tunnel.go:283).
THEOREM InvHolds == Spec => []Inv
  BY Inductive, PTL

\* No forwarder takes another one's handlers for the program's
\* (client_port_forward.go:244), over any number of retries.
THEOREM HandlersAreRestored == Spec => []HandlersRestored
  <1>1. TypeOK /\ Inv => HandlersRestored
    BY DEF TypeOK, Inv, HandlersInv, HandlersRestored
  <1> QED BY <1>1, Inductive, PTL

\* app tunnel that ends without an error leaves no forwarder behind (tunnel.go:318).
THEOREM NothingIsLeft == Spec => []NothingLeft
  <1>1. TypeOK /\ Inv => NothingLeft
    <2> SUFFICES ASSUME TypeOK, Inv, pc = "ended", result \in {"ok", "exit"}, mode # "ssh",
                        NEW g \in Gens
                 PROVE  fw[g] \in {"idle", "done"}
      BY DEF NothingLeft
    <2>1. gen \in Gens /\ fw[gen] = "done"
      BY DEF Inv, ResultInv
    <2> QED BY <2>1, GenerationOrder DEF Inv, GenerationsInv
  <1> QED BY <1>1, Inductive, PTL

\* What a forwarder took, handlers and ports, it has given back
\* (client_port_forward.go:244, tunnel.go:318).
THEOREM CleansUpHolds == Spec => []CleansUp
  BY HandlersAreRestored, NothingIsLeft, PTL DEF CleansUp

\* An interactive tunnel ends with success only after Ctrl+C or its watcher's stop
\* (tunnel.go:345).
THEOREM SuccessHasCause == Spec => []OkHasCause
  <1>1. Inv => OkHasCause
    BY DEF Inv, ResultInv, OkHasCause
  <1> QED BY <1>1, Inductive, PTL
=============================================================================
