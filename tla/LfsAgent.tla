------------------------------- MODULE LfsAgent -------------------------------
(***************************************************************************)
(* The Git LFS transfer agent (lfs/run.rs, lfs/agent.rs) over the object   *)
(* store: each task is an agent that git-lfs drives with one event after   *)
(* the other, or a client of the store with operations of its own, as the  *)
(* engines are.  The agents start once the repository is configured        *)
(* (GitConfig).                                                            *)
(***************************************************************************)
EXTENDS ObjectStore, GitConfig

CONSTANTS LfsKey,   \* the key <prefix>/lfs/<oid> of the one LFS object
          LfsBody   \* its bytes, which the oid fixes

ASSUME LfsAssumption == LfsKey \in Keys /\ LfsBody \in Bodies

VARIABLES
  role,       \* "lfs" or "client", once the process is started
  phase,      \* per agent: where the loop of run() is
  sofar,      \* per agent: bytesSoFar of the transfer
  last,       \* per agent: the result of the last transfer
  asked,      \* per agent: transfer events read
  completed   \* per agent: complete events written

agentVars == <<role, phase, sofar, last, asked, completed>>
vars == <<storeVars, agentVars, setup>>

Phases == {"setup", "start", "ready", "busy", "exit", "failed"}

\* Types.
TypeOK ==
  /\ StoreTypeOK
  /\ role \in [Tasks -> {"none", "lfs", "client"}]
  /\ phase \in [Tasks -> Phases]
  /\ sofar \in [Tasks -> Nat]
  /\ last \in [Tasks -> {"none", "ok", "skipped", "error"}]
  /\ asked \in [Tasks -> Nat] /\ completed \in [Tasks -> Nat]

Init ==
  /\ StoreInit /\ SetupInit
  /\ role = [t \in Tasks |-> "none"]
  /\ phase = [t \in Tasks |-> "setup"]
  /\ sofar = [t \in Tasks |-> 0]
  /\ last = [t \in Tasks |-> "none"]
  /\ asked = [t \in Tasks |-> 0]
  /\ completed = [t \in Tasks |-> 0]

-----------------------------------------------------------------------------

Configure ==
  /\ \A t \in Tasks : phase[t] = "setup"
  /\ \E t \in Writers : \/ ConfigStep(t) /\ UNCHANGED faults
                        \/ ConfigFails(t) /\ Fault
  /\ UNCHANGED <<op, file, chan, ops, seen, created, service, aborting, history, agentVars>>

\* git-lfs starts agents if it finds one in the configuration.  A process
\* reads it once: what is written later is for later processes, and from
\* here on it is left out.
Launch ==
  /\ \A t \in Tasks : phase[t] = "setup" /\ setup.by[t].at = "idle"
  /\ role' \in [Tasks -> IF AgentFound THEN {"lfs", "client"} ELSE {"client"}]
  /\ phase' = [t \in Tasks |-> "start"]
  /\ setup' = Repository(ConfigFile(Lines(<<>>, <<>>), Lines(<<>>, <<>>)))
  /\ UNCHANGED <<op, file, chan, ops, faults, seen, created, service, aborting, history, sofar, last, asked, completed>>

-----------------------------------------------------------------------------
(* The loop of run().                                                      *)

\* The first line.  An init whose remote resolves is acknowledged; one that
\* does not is answered with an error and ends the agent in good order, as
\* terminate does.  A transfer, a malformed line or the end of the input is
\* fatal.
FirstEvent(t) ==
  /\ role[t] = "lfs" /\ phase[t] = "start"
  /\ \E p \in {"ready", "exit", "failed"} : phase' = [phase EXCEPT ![t] = p]
  /\ UNCHANGED <<op, file, chan, ops, faults, service, aborting, history, role, sofar, last, asked, completed>>

\* Upload and download with a valid oid.
Transfer(t, kind) ==
  /\ role[t] = "lfs" /\ phase[t] = "ready"
  /\ Begin(t, kind, LfsKey, None, IF kind = "lfsput" THEN LfsBody ELSE None)
  /\ phase' = [phase EXCEPT ![t] = "busy"]
  /\ sofar' = [sofar EXCEPT ![t] = 0]
  /\ last' = [last EXCEPT ![t] = "none"]
  /\ asked' = [asked EXCEPT ![t] = @ + 1]
  /\ UNCHANGED <<role, completed>>

\* validate_oid: a malformed oid is answered and the loop goes on.
BadOid(t) ==
  /\ role[t] = "lfs" /\ phase[t] = "ready"
  /\ ops < MaxOps /\ ops' = ops + 1
  /\ asked' = [asked EXCEPT ![t] = @ + 1]
  /\ completed' = [completed EXCEPT ![t] = @ + 1]
  /\ UNCHANGED <<op, file, chan, faults, service, aborting, history, role, phase, sofar, last>>

\* terminate and the end of the input end the agent in good order, a
\* malformed line is fatal; a second init is ignored.
LastEvent(t) ==
  /\ role[t] = "lfs" /\ phase[t] = "ready"
  /\ \E p \in {"exit", "failed"} : phase' = [phase EXCEPT ![t] = p]
  /\ UNCHANGED <<op, file, chan, ops, faults, service, aborting, history, role, sofar, last, asked, completed>>

\* with_progress_stream: what the sink has queued is written while the
\* operation runs.
Progress(t) ==
  /\ phase[t] = "busy" /\ chan[t] > 0
  /\ sofar' = [sofar EXCEPT ![t] = @ + chan[t]]
  /\ chan' = [chan EXCEPT ![t] = 0]
  /\ UNCHANGED <<op, file, ops, faults, service, aborting, history, role, phase, last, asked, completed>>

\* The drain after the operation has returned.
Drain(t) == chan[t]

\* The operation has returned: the rest of the queue, then complete, with
\* the error if there is one; store errors do not end the agent.
Complete(t) ==
  /\ phase[t] = "busy" /\ ~Running(t)
  /\ sofar' = [sofar EXCEPT ![t] = @ + Drain(t)]
  /\ chan' = [chan EXCEPT ![t] = 0]
  /\ last' = [last EXCEPT ![t] = IF op[t].res \in {"ok", "skipped"} THEN op[t].res ELSE "error"]
  /\ completed' = [completed EXCEPT ![t] = @ + 1]
  /\ phase' = [phase EXCEPT ![t] = "ready"]
  /\ UNCHANGED <<op, file, ops, faults, service, aborting, history, role, asked>>

\* git-lfs closes the pipe: a progress event cannot be written, the
\* operation is dropped and the agent ends.
BrokenPipe(t) ==
  /\ phase[t] = "busy" /\ chan[t] > 0 /\ Cancel(t)
  /\ phase' = [phase EXCEPT ![t] = "exit"]
  /\ UNCHANGED <<role, sofar, last, asked, completed>>

Die(t) ==
  /\ Kill(t)
  /\ phase' = [phase EXCEPT ![t] = IF role[t] = "lfs" THEN "failed" ELSE @]
  /\ UNCHANGED <<role, sofar, last, asked, completed>>

-----------------------------------------------------------------------------
(* Clients: uploads, downloads, copies, lock creation, deletion and ranged *)
(* reads on the other keys.                                                *)

Call(t) ==
  /\ role[t] = "client"
  /\ \E k \in Keys \ {LfsKey}, b \in Bodies \ {LfsBody} :
       \/ \E kind \in {"put", "absent"} : Begin(t, kind, k, None, b)
       \/ \E kind \in {"get", "delete", "range"} : Begin(t, kind, k, None, None)
       \/ \E to \in Keys \ {LfsKey, k} : Begin(t, "copy", k, to, None)
  /\ UNCHANGED agentVars

Step(t) == StoreStep(t) /\ UNCHANGED agentVars

Next ==
  \/ Configure \/ Launch
  \/ /\ \E t \in Tasks :
          \/ FirstEvent(t) \/ BadOid(t) \/ LastEvent(t) \/ Progress(t) \/ Complete(t)
          \/ \E kind \in {"lfsput", "lfsget"} : Transfer(t, kind)
          \/ BrokenPipe(t) \/ Die(t) \/ Call(t) \/ Step(t)
        \/ \E u \in aborting : AbortDetached(u) /\ UNCHANGED agentVars
     /\ Track /\ UNCHANGED setup

Spec == Init /\ [][Next]_vars

-----------------------------------------------------------------------------
(* Properties.                                                             *)

\* What git-lfs is told is true.  An agent that is ready for the next event
\* has answered every transfer event with exactly one complete event; the
\* progress of a transfer that was made adds up to the size of the object,
\* none of it lost between the sink and the last event
\* (with_progress_stream); and a transfer reported as done, or skipped
\* because the object is there, leaves the whole object in the bucket,
\* whatever other agents do at the same time (try_upload: HEAD, then
\* put_path).
LfsTold ==
  /\ TypeOK
  /\ \A t \in Tasks :
       /\ phase[t] = "ready" => asked[t] = completed[t]
       /\ phase[t] = "ready" /\ last[t] = "ok" => sofar[t] = Size[LfsBody]
       /\ last[t] \in {"ok", "skipped"} =>
            obj[LfsKey] # None /\ obj[LfsKey].parts = Content(LfsBody)

=============================================================================
