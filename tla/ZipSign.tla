------------------------------ MODULE ZipSign ------------------------------
(***************************************************************************)
(* Client.SignZIP: signers of several client processes, and whoever else   *)
(* uses the output directory, race for one container path.  The file       *)
(* system is modelled one system call per step.  Every signer asks for the *)
(* same name, with the extension as it wrote it (.ZIP) or as the SDK does  *)
(* (.zip), so that every path below is "ZIP" or "zip".                     *)
(***************************************************************************)
EXTENDS Sequences

CONSTANTS Signers,   \* goroutines, each of which calls SignZIP once
          Clients,   \* processes with a client each
          Settings,  \* who calls whom, which clients are atomic, who else is there
          Nobody     \* not a signer

ASSUME ZipAssumption ==
  /\ Settings \subseteq [owner : [Signers -> Clients], atomic : SUBSET Clients, meddling : BOOLEAN]
  /\ Nobody \notin Signers

VARIABLES setting,     \* one of Settings, the same for ever
          pc,
          requested,   \* zipPlan.requestedPath; desiredPath is always "zip"
          todo,        \* the paths ensureZIPOutputAbsent has yet to Lstat
          gate,        \* the client's call gate: its holder or Nobody
          out,         \* the output directory
          stage,       \* a signer's stage directory and the container in it
          result       \* what SignZIP is about to return or returned

vars == <<setting, pc, requested, todo, gate, out, stage, result>>

Paths == {"ZIP", "zip"}

\* The client a signer calls, and whether it was opened WithAtomicZIPOutput.
Owner == setting.owner

Atomic(s) == Owner[s] \in setting.atomic

\* Files: who wrote them and how far; "other" is not a regular file.
NoFile == [by |-> Nobody, kind |-> "absent"]

Exists(f) == f.kind # "absent"

Locked == {"recheck", "native", "writing"}
Running == Locked \cup {"check", "stage", "wait", "created", "publish", "link", "cleanup"}
Final == {"returned", "dead"}

Init ==
  /\ setting \in Settings
  /\ pc = [s \in Signers |-> "idle"]
  /\ requested \in [Signers -> Paths]
  /\ todo = [s \in Signers |-> <<>>]
  /\ gate = [c \in Clients |-> Nobody]
  /\ out = [p \in Paths |-> NoFile]
  /\ stage = [s \in Signers |-> "none"]
  /\ result = [s \in Signers |-> "none"]

Goto(s, l) == pc' = [pc EXCEPT ![s] = l]

OutputPaths(s) == IF requested[s] = "zip" THEN <<"zip">> ELSE <<"ZIP", "zip">>

\* Return with r: the deferred cleanup removes the stage directory, if any.
Return(s, r) ==
  /\ result' = [result EXCEPT ![s] = r]
  /\ Goto(s, IF stage[s] = "none" THEN "returned" ELSE "cleanup")

-----------------------------------------------------------------------------
\* The steps of one call.

SignZIP(s) ==
  /\ pc[s] = "idle"
  /\ Goto(s, "check")
  /\ todo' = [todo EXCEPT ![s] = OutputPaths(s)]
  /\ UNCHANGED <<requested, gate, out, stage, result>>

\* One Lstat of ensureZIPOutputAbsent over the output directory: before the
\* call, under the gate when the output is not staged, and before publishing.
\* The path exists, or Lstat fails with an error other than ErrNotExist, and
\* SignZIP returns; or the path is absent and the next one is looked at.
LstatOutput(s) ==
  /\ pc[s] \in {"check", "publish"} \/ (pc[s] = "recheck" /\ ~Atomic(s))
  /\ todo[s] # <<>>
  /\ \/ /\ Return(s, "failed")
        /\ todo' = [todo EXCEPT ![s] = <<>>]
        /\ gate' = IF pc[s] = "recheck" THEN [gate EXCEPT ![Owner[s]] = Nobody] ELSE gate
     \/ /\ ~Exists(out[Head(todo[s])])
        /\ todo' = [todo EXCEPT ![s] = Tail(@)]
        /\ UNCHANGED <<pc, gate, result>>
  /\ UNCHANGED <<requested, out, stage>>

\* Every path is absent: stage, wait for the client, or publish.
OutputAbsent(s) ==
  /\ pc[s] \in {"check", "publish"}
  /\ todo[s] = <<>>
  /\ Goto(s, IF pc[s] = "publish" THEN "link" ELSE IF Atomic(s) THEN "stage" ELSE "wait")
  /\ UNCHANGED <<requested, todo, gate, out, stage, result>>

\* stagedZIPOutputPlan: a directory of its own, or an error.
StagedZIPOutputPlan(s) ==
  /\ pc[s] = "stage"
  /\ \/ /\ stage' = [stage EXCEPT ![s] = "empty"]
        /\ Goto(s, "wait")
        /\ UNCHANGED result
     \/ /\ Return(s, "failed")
        /\ UNCHANGED stage
  /\ UNCHANGED <<requested, todo, gate, out>>

\* Mutant: the call under the gate trusts the check made before it.
TakeGateUnchecked(s) ==
  /\ pc[s] = "wait" /\ gate[Owner[s]] = Nobody
  /\ gate' = [gate EXCEPT ![Owner[s]] = s]
  /\ Goto(s, "recheck")
  /\ UNCHANGED <<requested, todo, out, stage, result>>

\* withLockedLibrary admits the signer.  The staged plan names a path nobody
\* else knows, so its Lstat finds nothing and is left out; its failure returns
\* as NativeFails does.
TakeGate(s) ==
  /\ pc[s] = "wait"
  /\ gate[Owner[s]] = Nobody
  /\ gate' = [gate EXCEPT ![Owner[s]] = s]
  /\ todo' = [todo EXCEPT ![s] = IF Atomic(s) THEN <<>> ELSE OutputPaths(s)]
  /\ Goto(s, "recheck")
  /\ UNCHANGED <<requested, out, stage, result>>

\* The client is closed or the context canceled while waiting.
LeaveQueue(s) ==
  /\ pc[s] = "wait"
  /\ Return(s, "failed")
  /\ UNCHANGED <<requested, todo, gate, out, stage>>

\* The SDK opens its output file, over whatever has appeared there since.
OpenNative(s) ==
  /\ pc[s] = "recheck"
  /\ todo[s] = <<>>
  /\ Goto(s, "writing")
  /\ IF Atomic(s)
     THEN /\ stage' = [stage EXCEPT ![s] = "partial"]
          /\ UNCHANGED out
     ELSE /\ out' = [out EXCEPT !["zip"] = [by |-> s, kind |-> "partial"]]
          /\ UNCHANGED stage
  /\ UNCHANGED <<requested, todo, gate, result>>

\* Mutant: the result of ZipConSign is ignored and its file looked for.
NativeFailsIgnored(s) ==
  /\ pc[s] = "writing"
  /\ gate' = [gate EXCEPT ![Owner[s]] = Nobody]
  /\ Goto(s, "created")
  /\ UNCHANGED <<requested, todo, out, stage, result>>

\* ZipConSign reports an error, before or after it opened its file; what it
\* wrote stays.
NativeFails(s) ==
  /\ pc[s] = "writing" \/ (pc[s] = "recheck" /\ todo[s] = <<>>)
  /\ gate' = [gate EXCEPT ![Owner[s]] = Nobody]
  /\ Return(s, "failed")
  /\ UNCHANGED <<requested, todo, out, stage>>

\* ZipConSign finishes the file it opened, which others may have removed.
NativeSucceeds(s) ==
  /\ pc[s] = "writing"
  /\ gate' = [gate EXCEPT ![Owner[s]] = Nobody]
  /\ Goto(s, "created")
  /\ IF Atomic(s)
     THEN /\ stage' = [stage EXCEPT ![s] = "whole"]
          /\ UNCHANGED out
     ELSE /\ out' = [out EXCEPT !["zip"] = IF @.by = s THEN [@ EXCEPT !.kind = "whole"] ELSE @]
          /\ UNCHANGED stage
  /\ UNCHANGED <<requested, todo, result>>

\* createdZIPPath of the stage directory: the container, or the error that it
\* is missing, cannot be examined or is not a regular file.
CreatedStaged(s) ==
  /\ pc[s] = "created"
  /\ Atomic(s)
  /\ \/ /\ Goto(s, "publish")
        /\ todo' = [todo EXCEPT ![s] = OutputPaths(s)]
        /\ UNCHANGED result
     \/ /\ Return(s, "failed")
        /\ UNCHANGED todo
  /\ UNCHANGED <<requested, gate, out, stage>>

\* createdZIPPath of the output directory: the first path that exists decides,
\* unless it cannot be examined.
CreatedOutput(s) ==
  /\ pc[s] = "created"
  /\ ~Atomic(s)
  /\ LET found == SelectSeq(<<"zip", requested[s]>>, LAMBDA p : Exists(out[p]))
     IN  \/ found # <<>> /\ out[Head(found)].kind # "other" /\ Return(s, "ok")
         \/ Return(s, "failed")
  /\ UNCHANGED <<requested, todo, gate, out, stage>>

\* Mutant: the staged file is renamed over its destination.
RenameStagedZIP(s) ==
  /\ pc[s] = "link"
  /\ out' = [out EXCEPT !["zip"] = [by |-> s, kind |-> stage[s]]]
  /\ Return(s, "ok")
  /\ UNCHANGED <<requested, todo, gate, stage>>

\* os.Link of publishStagedZIP creates the destination or fails.
PublishStagedZIP(s) ==
  /\ pc[s] = "link"
  /\ \/ /\ ~Exists(out["zip"])
        /\ out' = [out EXCEPT !["zip"] = [by |-> s, kind |-> stage[s]]]
        /\ Return(s, "ok")
     \/ /\ Return(s, "failed")
        /\ UNCHANGED out
  /\ UNCHANGED <<requested, todo, gate, stage>>

\* The deferred RemoveAll, whose error is ignored.
Cleanup(s) ==
  /\ pc[s] = "cleanup"
  /\ Goto(s, "returned")
  /\ \/ stage' = [stage EXCEPT ![s] = "none"]
     \/ UNCHANGED stage
  /\ UNCHANGED <<requested, todo, gate, out, result>>

Step(s) ==
  \/ LstatOutput(s) \/ OutputAbsent(s) \/ StagedZIPOutputPlan(s)
  \/ TakeGate(s) \/ LeaveQueue(s)
  \/ OpenNative(s) \/ NativeFails(s) \/ NativeSucceeds(s)
  \/ CreatedStaged(s) \/ CreatedOutput(s) \/ PublishStagedZIP(s) \/ Cleanup(s)

-----------------------------------------------------------------------------
\* The environment.

\* Another program creates, replaces or removes a file in the directory.
Meddle(p) ==
  /\ setting.meddling
  /\ \E kind \in {"absent", "whole", "other"} : out' = [out EXCEPT ![p] = [by |-> Nobody, kind |-> kind]]
  /\ UNCHANGED <<pc, requested, todo, gate, stage, result>>

\* The process of a client dies; nothing it deferred runs.
Crash(c) ==
  /\ \E s \in Signers : Owner[s] = c /\ pc[s] \in Running
  /\ pc' = [s \in Signers |-> IF Owner[s] = c /\ pc[s] # "returned" THEN "dead" ELSE pc[s]]
  /\ UNCHANGED <<requested, todo, gate, out, stage, result>>

Finished ==
  /\ \A s \in Signers : pc[s] \in Final
  /\ UNCHANGED vars

Next ==
  /\ \/ \E s \in Signers : SignZIP(s) \/ Step(s)
     \/ \E p \in Paths : Meddle(p)
     \/ \E c \in Clients : Crash(c)
     \/ Finished
  /\ UNCHANGED setting

Spec == Init /\ [][Next]_vars

-----------------------------------------------------------------------------
\* "Enable WithAtomicZIPOutput for atomic publication without replacement of
\* an existing destination": whatever other signers and programs do between
\* its checks, a step of an atomic signer leaves every existing file alone.
AtomicNeverReplaces ==
  [][\A p \in Paths :
       /\ Exists(out[p])
       /\ out'[p].by \in Signers
       /\ out'[p] # out[p]
       => ~Atomic(out'[p].by)]_vars

\* Nobody ever sees an unfinished container of an atomic signer at the output
\* path, a crash of its process or an error of the SDK included, and an atomic
\* SignZIP that reports an error published nothing.
PublishedIsWhole ==
  \A p \in Paths :
    out[p].by \in Signers /\ Atomic(out[p].by) =>
      out[p].kind = "whole" /\ result[out[p].by] = "ok"

\* Signers of one client do not overwrite each other, with or without atomic
\* output, as long as nobody else uses the directory: a container that SignZIP
\* reported is in place, complete and the caller's own.
ReportedIsOwn ==
  ~setting.meddling /\ (\A r, s \in Signers : Owner[r] = Owner[s]) =>
    \A s \in Signers :
      result[s] = "ok" => out["zip"] = [by |-> s, kind |-> "whole"]
=============================================================================
