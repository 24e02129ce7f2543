------------------------------ MODULE Response ------------------------------
(***************************************************************************)
(* The executors of the agent's response commands (sigil-agent, response): *)
(* what isolate, unisolate, quarantine and kill do to the host, one call   *)
(* of a firewall tool or one file operation at a time.  Every command has  *)
(* a blocking thread of its own, so that two of them interleave; any call  *)
(* may fail, and the agent may end between two of them.  Which platform it *)
(* is, is fixed at compile time.                                           *)
(*                                                                         *)
(* A firewall is what it blocks by default and what it lets pass; the      *)
(* tools are external.  EdrGateway has the way of a command to the agent   *)
(* and of its result back.                                                 *)
(***************************************************************************)
EXTENDS Integers, FiniteSets

CONSTANTS
    Control,        \* the host of the control channel
    Cidrs,          \* allowlist_cidrs of the isolate command
    Task,           \* the threads, each with one command
    Image,          \* Image[p]: the SHA-256 of process p's executable
    MaxFailures     \* bound: failed calls, and ends of the agent

VARIABLES
    os, work,       \* the platform; work[t]: the command of thread t
    step,           \* step[t]: what it does next; "ok", "failed" or "gone" in the end
    pending,        \* pending[t]: the allow rules it still has to add
    fw,             \* the firewall: default block, what passes, pf's anchor file and switch
    file,           \* the file to quarantine: is it at its path, and the copies made
    alive,          \* running processes
    failures

responseVars == <<os, work, step, pending, fw, file, alive, failures>>

Open == [block |-> FALSE, pass |-> {}, anchor |-> {}, on |-> FALSE]

\* allowlist
Allow == {"loopback", Control} \cup Cidrs

\* Does the firewall keep traffic back?  pf only when it is switched on.
Blocks == fw.block /\ (os = "macos" => fw.on)

ResponseInit ==
    /\ os \in {"linux", "macos", "windows"}
    /\ work \in [Task -> {"isolate", "unisolate", "quarantine", "kill"}]
    /\ step = [t \in Task |-> "start"] /\ pending = [t \in Task |-> {}]
    /\ \/ fw = Open
       \/ fw = [Open EXCEPT !.block = TRUE, !.pass = Allow, !.on = TRUE]
    /\ file = [there |-> TRUE, copies |-> {}, sealed |-> {}]
    /\ alive = DOMAIN Image
    /\ failures = 0

Does(t, kind, here) == work[t] = kind /\ step[t] = here
Goes(t, there) == step' = [step EXCEPT ![t] = there]
Works == UNCHANGED failures
Fails == failures < MaxFailures /\ failures' = failures + 1

---------------------------------------------------------------------------
(* isolate::apply and clear                                                *)

\* Linux: one transaction of nft; a table that is there already gets the rules
\* in addition, and one that is not there cannot be deleted.
Nft(t) ==
    /\ os = "linux" /\ step[t] = "start" /\ work[t] \in {"isolate", "unisolate"}
    /\ \/ /\ work[t] = "isolate" /\ Works /\ Goes(t, "ok")
          /\ fw' = [fw EXCEPT !.block = TRUE, !.pass = @ \cup Allow]
       \/ /\ work[t] = "unisolate" /\ fw.block /\ Works /\ Goes(t, "ok")
          /\ fw' = Open
       \/ /\ \/ Fails
             \/ work[t] = "unisolate" /\ ~fw.block /\ Works
          /\ Goes(t, "failed") /\ UNCHANGED fw
    /\ UNCHANGED <<os, work, pending, file, alive>>

\* macOS: the anchor file is emptied and written, loaded, and pf switched on,
\* the last without a look at the result; to clear, the rules are flushed.
Pfctl(t) ==
    /\ os = "macos"
    /\ \/ Does(t, "isolate", "start") /\ Works /\ Goes(t, "write") /\ fw' = [fw EXCEPT !.anchor = {}]
       \/ Does(t, "isolate", "write") /\ Works /\ Goes(t, "load") /\ fw' = [fw EXCEPT !.anchor = Allow]
       \/ /\ Does(t, "isolate", "load") /\ Works /\ Goes(t, "enable")
          /\ fw' = [fw EXCEPT !.block = fw.anchor # {}, !.pass = fw.anchor]
       \/ Does(t, "isolate", "enable") /\ Works /\ Goes(t, "ok") /\ fw' = [fw EXCEPT !.on = TRUE]
       \/ Does(t, "isolate", "enable") /\ Fails /\ Goes(t, "ok") /\ UNCHANGED fw
       \/ Does(t, "unisolate", "start") /\ Works /\ Goes(t, "ok") /\ fw' = [fw EXCEPT !.block = FALSE, !.pass = {}]
       \/ /\ \/ \E here \in {"start", "write", "load"} : Does(t, "isolate", here)
             \/ Does(t, "unisolate", "start")
          /\ Fails /\ Goes(t, "failed") /\ UNCHANGED fw
    /\ UNCHANGED <<os, work, pending, file, alive>>

\* Mutant: the default is changed back first and the rules deleted after it.
ClearLast == [first |-> "policy", second |-> "rules"]

\* The two calls of clear on Windows, in their order.
Clear == [first |-> "rules", second |-> "policy"]
AfterClear(what) == IF what = "rules" THEN [fw EXCEPT !.pass = {}] ELSE [fw EXCEPT !.block = FALSE]

\* Windows: outbound is blocked by default, then a rule per destination is
\* added, without a look at the result.  To clear, the rules are deleted, again
\* without a look, and the default is changed back.
Netsh(t) ==
    /\ os = "windows"
    /\ \/ /\ Does(t, "isolate", "start") /\ Works /\ Goes(t, "rules")
          /\ fw' = [fw EXCEPT !.block = TRUE] /\ pending' = [pending EXCEPT ![t] = Allow]
       \/ /\ Does(t, "isolate", "rules")
          /\ \E a \in pending[t] :
                /\ pending' = [pending EXCEPT ![t] = @ \ {a}]
                /\ Goes(t, IF pending[t] = {a} THEN "ok" ELSE "rules")
                /\ \/ Works /\ fw' = [fw EXCEPT !.pass = @ \cup {a}]
                   \/ Fails /\ UNCHANGED fw
       \/ /\ Does(t, "unisolate", "start") /\ Goes(t, "policy") /\ UNCHANGED pending
          /\ \/ Works /\ fw' = AfterClear(Clear.first)
             \/ Fails /\ UNCHANGED fw
       \/ Does(t, "unisolate", "policy") /\ Works /\ Goes(t, "ok") /\ fw' = AfterClear(Clear.second) /\ UNCHANGED pending
       \/ /\ Does(t, "isolate", "start") \/ Does(t, "unisolate", "policy")
          /\ Fails /\ Goes(t, "failed") /\ UNCHANGED <<fw, pending>>
    /\ UNCHANGED <<os, work, file, alive>>

---------------------------------------------------------------------------
(* quarantine::run and kill::run                                           *)

\* Mutant: the original is removed first.
RemovedFirst(t) == [file EXCEPT !.there = FALSE]

\* What copying the file leaves.
Copied(t) == [file EXCEPT !.copies = @ \cup {t}]

\* The directory is made, if need be; rename, or copy and remove across file systems; then the permissions are
\* stripped and the original path noted, without a look at the result.
Quarantine(t) ==
    /\ \/ /\ Does(t, "quarantine", "start") /\ Works /\ UNCHANGED file
          /\ Goes(t, IF file.there THEN "rename" ELSE "failed")
       \/ Does(t, "quarantine", "start") /\ Fails /\ Goes(t, "failed") /\ UNCHANGED file
       \/ /\ Does(t, "quarantine", "rename") /\ file.there /\ Works /\ Goes(t, "seal")
          /\ file' = [file EXCEPT !.there = FALSE, !.copies = @ \cup {t}]
       \/ /\ Does(t, "quarantine", "rename") /\ (Fails \/ (~file.there /\ Works))
          /\ Goes(t, "copy") /\ UNCHANGED file
       \/ Does(t, "quarantine", "copy") /\ file.there /\ Works /\ Goes(t, "remove") /\ file' = Copied(t)
       \/ Does(t, "quarantine", "remove") /\ file.there /\ Works /\ Goes(t, "seal") /\ file' = [file EXCEPT !.there = FALSE]
       \/ /\ Does(t, "quarantine", "copy") \/ Does(t, "quarantine", "remove")
          /\ Fails \/ (~file.there /\ Works)
          /\ Goes(t, "failed") /\ UNCHANGED file
       \/ Does(t, "quarantine", "seal") /\ Works /\ Goes(t, "ok") /\ file' = [file EXCEPT !.sealed = @ \cup {t}]
       \/ Does(t, "quarantine", "seal") /\ Fails /\ Goes(t, "ok") /\ UNCHANGED file
    /\ UNCHANGED <<os, work, pending, fw, alive>>

\* By pid: the process is killed, or not, or is no longer there.
KillPid(t, p) ==
    /\ Does(t, "kill", "start")
    /\ \/ p \in alive /\ Works /\ alive' = alive \ {p} /\ Goes(t, "ok")
       \/ p \in alive /\ Fails /\ UNCHANGED alive /\ Goes(t, "failed")
       \/ p \notin alive /\ Works /\ UNCHANGED alive /\ Goes(t, "failed")
    /\ UNCHANGED <<os, work, pending, fw, file>>

\* By hash: every process that matches is killed, or not; the command succeeds
\* when one matched.
KillHash(t, hash) ==
    LET matched == {p \in alive : Image[p] = hash}
    IN  /\ Does(t, "kill", "start")
        /\ Goes(t, IF matched = {} THEN "failed" ELSE "ok")
        /\ \/ Works /\ alive' = alive \ matched
           \/ Fails /\ \E p \in matched : alive' = alive \ (matched \ {p})
        /\ UNCHANGED <<os, work, pending, fw, file>>

\* The agent ends: its threads are gone with it.
AgentEnds ==
    /\ \E t \in Task : step[t] \notin {"ok", "failed", "gone"}
    /\ step' = [t \in Task |-> IF step[t] \in {"ok", "failed"} THEN step[t] ELSE "gone"]
    /\ Fails
    /\ UNCHANGED <<os, work, pending, fw, file, alive>>

ResponseNext ==
    \/ \E t \in Task : Nft(t) \/ Pfctl(t) \/ Netsh(t) \/ Quarantine(t)
    \/ \E t \in Task, p \in DOMAIN Image : KillPid(t, p) \/ KillHash(t, Image[p])
    \/ AgentEnds

ResponseSpec == ResponseInit /\ [][ResponseNext]_responseVars

---------------------------------------------------------------------------
(* Properties                                                              *)

Over == \A t \in Task : step[t] \in {"ok", "failed", "gone"}
Ended(t, kind, how) == work[t] = kind /\ step[t] = how

\* "A contained host can never sever the agent's own link back to the server"
\* (isolate.rs): a firewall that blocks lets the control channel through, when
\* no thread is at it and no call failed; on Linux and macOS also with failures
\* and when the agent ends.
LinkKept ==
    Blocks /\ (os # "windows" \/ (Over /\ failures = 0)) => {"loopback", Control} \subseteq fw.pass

\* A quarantined file is never lost, whatever fails and however two threads
\* meet: it is at its path or a copy is there, and what a result calls
\* quarantined is no longer at its path.
FileKept ==
    /\ file.there \/ file.copies # {}
    /\ \A t \in Task : Ended(t, "quarantine", "ok") => ~file.there /\ t \in file.copies

\* Without failed calls a result tells what became of the host: isolated, free
\* again (when no command to the contrary ran too), sealed, dead.
ResultTells ==
    Over /\ failures = 0 =>
        \A t \in Task :
            /\ Ended(t, "isolate", "ok") => Blocks \/ \E u \in Task : Ended(u, "unisolate", "ok")
            /\ Ended(t, "unisolate", "ok") => ~Blocks \/ \E u \in Task : Ended(u, "isolate", "ok")
            /\ Ended(t, "quarantine", "ok") => t \in file.sealed
            /\ Ended(t, "kill", "ok") => alive # DOMAIN Image

\* What a response does to the host is what its result says, and it costs
\* neither the link nor the file.
ResponsesHold == LinkKept /\ FileKept /\ ResultTells
=============================================================================
