--------------------------- MODULE ResponseProofs ---------------------------
(***************************************************************************)
(* Proofs about Response, for any number of threads and commands, any      *)
(* allowlist and any number of failed calls and ends of the agent.         *)
(***************************************************************************)
EXTENDS Response, TLAPS

---------------------------------------------------------------------------
(* The inductive invariant                                                 *)

Steps == {"start", "write", "load", "enable", "rules", "policy", "rename", "copy", "remove", "seal",
          "ok", "failed", "gone"}

HostTypes ==
    /\ os \in {"linux", "macos", "windows"}
    /\ work \in [Task -> {"isolate", "unisolate", "quarantine", "kill"}]
    /\ step \in [Task -> Steps]
    /\ pending \in [Task -> SUBSET Allow]
    /\ fw \in [block : BOOLEAN, pass : SUBSET Allow, anchor : SUBSET Allow, on : BOOLEAN]
    /\ file \in [there : BOOLEAN, copies : SUBSET Task, sealed : SUBSET Task]
    /\ failures \in Nat

\* A thread with a command of this kind is at one of these steps.
Some(kind, S) == \E t \in Task : work[t] = kind /\ step[t] \in S

\* nft works in one transaction: the rules come and go with the table.
LinuxInv ==
    os = "linux" =>
        /\ fw.block => Allow \subseteq fw.pass
        /\ failures = 0 =>
            /\ Some("isolate", {"ok"}) => fw.block \/ Some("unisolate", {"ok"})
            /\ Some("unisolate", {"ok"}) => ~fw.block \/ Some("isolate", {"ok"})

\* pfctl loads the anchor that a thread wrote; another may have emptied it in
\* the meantime, and then has yet to write and to load it.
MacInv ==
    os = "macos" =>
        /\ fw.anchor \in {{}, Allow}
        /\ fw.block => fw.pass = Allow
        /\ failures = 0 =>
            /\ Some("isolate", {"load"}) => fw.anchor = Allow \/ Some("isolate", {"write"})
            /\ Some("isolate", {"ok"}) => fw.on
            /\ Some("isolate", {"enable", "ok"}) =>
                   fw.block \/ Some("unisolate", {"ok"}) \/ Some("isolate", {"write", "load"})
            /\ Some("unisolate", {"ok"}) => ~fw.block \/ Some("isolate", {"enable", "ok"})

\* netsh blocks first: a destination that does not pass is one that a thread has
\* yet to add, or a thread that deleted the rules has yet to change the default.
WindowsInv ==
    os = "windows" /\ failures = 0 =>
        /\ fw.block => \A a \in Allow : \/ a \in fw.pass
                                        \/ Some("unisolate", {"policy"})
                                        \/ \E t \in Task : Does(t, "isolate", "rules") /\ a \in pending[t]
        /\ Some("isolate", {"rules", "ok"}) => fw.block \/ Some("unisolate", {"ok"})
        /\ Some("unisolate", {"ok"}) => ~fw.block \/ Some("isolate", {"rules", "ok"})

\* The original goes only when a copy of it is there.
FileInv ==
    /\ file.there \/ file.copies # {}
    /\ \A t \in Task : work[t] = "quarantine" =>
        /\ step[t] \in {"seal", "ok"} => ~file.there /\ t \in file.copies
        /\ step[t] = "remove" => t \in file.copies
        /\ step[t] = "ok" /\ failures = 0 => t \in file.sealed

KillInv ==
    /\ alive \subseteq DOMAIN Image
    /\ Some("kill", {"ok"}) /\ failures = 0 => alive # DOMAIN Image

HostInv == HostTypes /\ LinuxInv /\ MacInv /\ WindowsInv /\ FileInv /\ KillInv

---------------------------------------------------------------------------
(* Steps of the threads                                                    *)

\* A step of one thread, seen from the others.
LEMMA GoesFacts ==
    ASSUME HostTypes, NEW t \in Task, NEW there \in Steps, Goes(t, there)
    PROVE  step' \in [Task -> Steps] /\ step'[t] = there /\ \A u \in Task : u # t => step'[u] = step[u]
BY DEF HostTypes, Goes

\* A call works, or is one that fails.
LEMMA FailureFacts ==
    ASSUME HostTypes, Works \/ Fails
    PROVE  failures' \in Nat /\ (failures' = 0 => failures = 0 /\ Works)
BY DEF HostTypes, Works, Fails

\* A step that leaves the firewall and its threads alone.
LEMMA FirewallKept ==
    ASSUME LinuxInv, MacInv, WindowsInv, UNCHANGED <<os, work, fw, pending>>,
           failures' = 0 => failures = 0,
           \A u \in Task : work[u] \in {"isolate", "unisolate"} => step'[u] = step[u]
    PROVE  LinuxInv' /\ MacInv' /\ WindowsInv'
<1>1. \A S : /\ Some("isolate", S)' <=> Some("isolate", S)
             /\ Some("unisolate", S)' <=> Some("unisolate", S)
  BY DEF Some
<1>2. LinuxInv'
  BY <1>1 DEF LinuxInv
<1>3. MacInv'
  BY <1>1 DEF MacInv
<1>4. WindowsInv'
  BY <1>1 DEF WindowsInv, Does
<1> QED BY <1>2, <1>3, <1>4

\* A step that leaves the file and its threads alone.
LEMMA FileKeptBy ==
    ASSUME FileInv, UNCHANGED <<work, file>>, failures' = 0 => failures = 0,
           \A u \in Task : work[u] = "quarantine" => step'[u] = step[u]
    PROVE  FileInv'
BY DEF FileInv

LEMMA KillKept ==
    ASSUME KillInv, UNCHANGED <<work, alive>>, failures' = 0 => failures = 0,
           \A u \in Task : work[u] = "kill" => step'[u] = step[u]
    PROVE  KillInv'
BY DEF KillInv, Some
\* Which steps are taken, after a thread has gone on.
LEMMA SomeFacts ==
    ASSUME HostTypes, NEW t \in Task, NEW there \in Steps, Goes(t, there), work' = work, NEW kind, NEW S
    PROVE  /\ Some(kind, S) /\ (kind # work[t] \/ step[t] \notin S \/ there \in S) => Some(kind, S)'
           /\ Some(kind, S)' => Some(kind, S) \/ (kind = work[t] /\ there \in S)
           /\ kind = work[t] /\ there \in S => Some(kind, S)'
BY GoesFacts DEF Some, HostTypes

---------------------------------------------------------------------------
(* isolate::apply and clear                                                *)

\* One transaction of nft.
LEMMA NftStep ==
    ASSUME HostInv, NEW t \in Task, Nft(t)
    PROVE  HostInv'
<1>1. /\ os = "linux" /\ step[t] = "start" /\ work[t] \in {"isolate", "unisolate"}
      /\ UNCHANGED <<os, work, pending, file, alive>> /\ HostTypes
  BY DEF Nft, HostInv
<1>2. PICK there \in {"ok", "failed"} : Goes(t, there)
  BY DEF Nft
<1>3. Works \/ Fails
  BY DEF Nft
<1>4. failures' \in Nat /\ (failures' = 0 => failures = 0 /\ Works)
  BY <1>1, <1>3, FailureFacts
<1>5. step' \in [Task -> Steps] /\ step'[t] = there /\ \A u \in Task : u # t => step'[u] = step[u]
  BY <1>1, <1>2, GoesFacts DEF Steps
<1>6. \A kind, S : /\ Some(kind, S) /\ (kind # work[t] \/ step[t] \notin S \/ there \in S) => Some(kind, S)'
                   /\ Some(kind, S)' => Some(kind, S) \/ (kind = work[t] /\ there \in S)
                   /\ kind = work[t] /\ there \in S => Some(kind, S)'
  BY <1>1, <1>2, SomeFacts DEF Steps
<1>7. FileInv' /\ KillInv' /\ MacInv' /\ WindowsInv'
  BY <1>1, <1>4, <1>5, FileKeptBy, KillKept DEF HostInv, MacInv, WindowsInv
<1>8. CASE work[t] = "isolate" /\ Works /\ there = "ok" /\ fw' = [fw EXCEPT !.block = TRUE, !.pass = @ \cup Allow]
  <2>1. /\ fw'.block = TRUE /\ fw'.pass = fw.pass \cup Allow
        /\ fw' \in [block : BOOLEAN, pass : SUBSET Allow, anchor : SUBSET Allow, on : BOOLEAN]
    BY <1>1, <1>8 DEF HostTypes
  <2>2. LinuxInv'
    BY <1>6, <1>8, <2>1 DEF LinuxInv
  <2> QED BY <1>1, <1>4, <1>5, <1>7, <2>1, <2>2 DEF HostInv, HostTypes
<1>9. CASE work[t] = "unisolate" /\ Works /\ there = "ok" /\ fw' = Open
  <2>1. /\ fw'.block = FALSE
        /\ fw' \in [block : BOOLEAN, pass : SUBSET Allow, anchor : SUBSET Allow, on : BOOLEAN]
    BY <1>9 DEF Open
  <2>2. LinuxInv'
    BY <1>6, <1>9, <2>1 DEF LinuxInv
  <2> QED BY <1>1, <1>4, <1>5, <1>7, <2>1, <2>2 DEF HostInv, HostTypes
<1>10. CASE there = "failed" /\ fw' = fw
  <2>1. \A kind : Some(kind, {"ok"})' <=> Some(kind, {"ok"})
    BY <1>1, <1>6, <1>10
  <2>2. LinuxInv'
    BY <1>1, <1>4, <1>10, <2>1 DEF HostInv, LinuxInv
  <2> QED BY <1>1, <1>4, <1>5, <1>7, <1>10, <2>2 DEF HostInv, HostTypes
<1>11. \A a \in {"ok", "failed"} : Goes(t, a) => a = there
  BY <1>1, <1>5 DEF Goes, HostTypes
<1> QED BY <1>8, <1>9, <1>10, <1>11 DEF Nft

\* A call of pfctl, or of the anchor file.
LEMMA PfctlStep ==
    ASSUME HostInv, NEW t \in Task, Pfctl(t)
    PROVE  HostInv'
<1>1. os = "macos" /\ UNCHANGED <<os, work, pending, file, alive>> /\ HostTypes
  BY DEF Pfctl, HostInv
<1>2. PICK there \in {"write", "load", "enable", "ok", "failed"} : Goes(t, there)
  BY DEF Pfctl
<1>3. Works \/ Fails
  BY DEF Pfctl
<1>4. failures' \in Nat /\ (failures' = 0 => failures = 0 /\ Works)
  BY <1>1, <1>3, FailureFacts
<1>5. step' \in [Task -> Steps] /\ step'[t] = there /\ \A u \in Task : u # t => step'[u] = step[u]
  BY <1>1, <1>2, GoesFacts DEF Steps
<1>6. \A kind, S : /\ Some(kind, S) /\ (kind # work[t] \/ step[t] \notin S \/ there \in S) => Some(kind, S)'
                   /\ Some(kind, S)' => Some(kind, S) \/ (kind = work[t] /\ there \in S)
                   /\ kind = work[t] /\ there \in S => Some(kind, S)'
  BY <1>1, <1>2, SomeFacts DEF Steps
<1>7. work[t] \in {"isolate", "unisolate"}
  BY DEF Pfctl, Does
<1>8. FileInv' /\ KillInv' /\ LinuxInv' /\ WindowsInv'
  BY <1>1, <1>4, <1>5, <1>7, FileKeptBy, KillKept DEF HostInv, LinuxInv, WindowsInv
<1>9. \A a \in {"write", "load", "enable", "ok", "failed"} : Goes(t, a) => a = there
  BY <1>1, <1>5 DEF Goes, HostTypes
<1> SUFFICES fw' \in [block : BOOLEAN, pass : SUBSET Allow, anchor : SUBSET Allow, on : BOOLEAN] /\ MacInv'
  BY <1>1, <1>4, <1>5, <1>8 DEF HostInv, HostTypes
<1>10. CASE Does(t, "isolate", "start") /\ there = "write" /\ fw' = [fw EXCEPT !.anchor = {}]
  <2>1. /\ fw'.block = fw.block /\ fw'.pass = fw.pass /\ fw'.anchor = {} /\ fw'.on = fw.on
        /\ fw' \in [block : BOOLEAN, pass : SUBSET Allow, anchor : SUBSET Allow, on : BOOLEAN]
    BY <1>1, <1>10 DEF HostTypes
  <2> QED BY <1>1, <1>4, <1>6, <1>10, <2>1 DEF HostInv, MacInv, Does
<1>11. CASE Does(t, "isolate", "write") /\ there = "load" /\ fw' = [fw EXCEPT !.anchor = Allow]
  <2>1. /\ fw'.block = fw.block /\ fw'.pass = fw.pass /\ fw'.anchor = Allow /\ fw'.on = fw.on
        /\ fw' \in [block : BOOLEAN, pass : SUBSET Allow, anchor : SUBSET Allow, on : BOOLEAN]
    BY <1>1, <1>11 DEF HostTypes
  <2> QED BY <1>1, <1>4, <1>6, <1>11, <2>1 DEF HostInv, MacInv, Does
<1>12. CASE /\ Does(t, "isolate", "load") /\ there = "enable"
            /\ fw' = [fw EXCEPT !.block = fw.anchor # {}, !.pass = fw.anchor]
  <2>1. /\ fw'.block = (fw.anchor # {}) /\ fw'.pass = fw.anchor /\ fw'.anchor = fw.anchor /\ fw'.on = fw.on
        /\ fw' \in [block : BOOLEAN, pass : SUBSET Allow, anchor : SUBSET Allow, on : BOOLEAN]
    BY <1>1, <1>12 DEF HostTypes
  <2>2. Allow # {}
    BY DEF Allow
  <2>3. /\ work[t] = "isolate" /\ step[t] = "load"
        /\ Some("isolate", {"write"}) => Some("isolate", {"write"})' /\ Some("isolate", {"write", "load"})'
        /\ Some("isolate", {"load"})' => Some("isolate", {"load"})
        /\ Some("isolate", {"ok"})' => Some("isolate", {"ok"})
        /\ Some("isolate", {"enable", "ok"})' /\ Some("isolate", {"load"})
    <3>1. work[t] = "isolate" /\ step[t] = "load"
      BY <1>12 DEF Does
    <3>2. Some("isolate", {"write"}) => Some("isolate", {"write"})'
      BY <1>6, <3>1
    <3>3. Some("isolate", {"write"})' => Some("isolate", {"write", "load"})'
      BY DEF Some
    <3>4. Some("isolate", {"load"})
      BY <3>1 DEF Some
    <3>5. /\ Some("isolate", {"load"})' => Some("isolate", {"load"})
          /\ Some("isolate", {"ok"})' => Some("isolate", {"ok"})
          /\ Some("isolate", {"enable", "ok"})'
      BY <1>6, <1>12, <3>1
    <3> QED BY <3>1, <3>2, <3>3, <3>4, <3>5
  <2>4. CASE failures' # 0
    BY <1>1, <2>1, <2>4 DEF HostInv, MacInv
  <2>5. CASE failures' = 0
    <3>1. fw.anchor \in {{}, Allow} /\ (fw.anchor = Allow \/ Some("isolate", {"write"}))
      BY <1>1, <1>4, <2>3, <2>5 DEF HostInv, MacInv
    <3>2. Some("isolate", {"ok"}) => fw.on
      BY <1>1, <1>4, <2>5 DEF HostInv, MacInv
    <3> QED BY <2>1, <2>2, <2>3, <3>1, <3>2 DEF MacInv
  <2> QED BY <2>4, <2>5
<1>13. CASE Does(t, "isolate", "enable") /\ there = "ok" /\ fw' = [fw EXCEPT !.on = TRUE]
  <2>1. /\ fw'.block = fw.block /\ fw'.pass = fw.pass /\ fw'.anchor = fw.anchor /\ fw'.on = TRUE
        /\ fw' \in [block : BOOLEAN, pass : SUBSET Allow, anchor : SUBSET Allow, on : BOOLEAN]
    BY <1>1, <1>13 DEF HostTypes
  <2>2. /\ Some("isolate", {"write"}) => Some("isolate", {"write"})'
        /\ Some("isolate", {"write", "load"}) => Some("isolate", {"write", "load"})'
        /\ Some("isolate", {"load"})' => Some("isolate", {"load"})
        /\ Some("isolate", {"enable", "ok"})' /\ Some("isolate", {"enable", "ok"})
        /\ Some("unisolate", {"ok"})' <=> Some("unisolate", {"ok"})
    <3>1. work[t] = "isolate" /\ step[t] = "enable"
      BY <1>13 DEF Does
    <3>2. Some("isolate", {"enable", "ok"})
      BY <3>1 DEF Some
    <3> QED BY <1>6, <1>13, <3>1, <3>2
  <2> QED BY <1>1, <1>4, <2>1, <2>2 DEF HostInv, MacInv
<1>14. CASE Does(t, "unisolate", "start") /\ there = "ok" /\ fw' = [fw EXCEPT !.block = FALSE, !.pass = {}]
  <2>1. /\ fw'.block = FALSE /\ fw'.pass = {} /\ fw'.anchor = fw.anchor /\ fw'.on = fw.on
        /\ fw' \in [block : BOOLEAN, pass : SUBSET Allow, anchor : SUBSET Allow, on : BOOLEAN]
    BY <1>1, <1>14 DEF HostTypes
  <2> QED BY <1>1, <1>4, <1>6, <1>14, <2>1 DEF HostInv, MacInv, Does
<1>15. CASE Fails /\ fw' = fw
  <2>1. failures' # 0
    BY <1>1, <1>15 DEF Fails, HostTypes
  <2> QED BY <1>1, <1>15, <2>1 DEF HostInv, HostTypes, MacInv
<1> QED BY <1>9, <1>10, <1>11, <1>12, <1>13, <1>14, <1>15 DEF Pfctl

\* A call of netsh.
LEMMA NetshStep ==
    ASSUME HostInv, NEW t \in Task, Netsh(t)
    PROVE  HostInv'
<1>1. os = "windows" /\ UNCHANGED <<os, work, file, alive>> /\ HostTypes
  BY DEF Netsh, HostInv
<1>2. PICK there \in {"rules", "policy", "ok", "failed"} : Goes(t, there)
  BY DEF Netsh
<1>3. Works \/ Fails
  BY DEF Netsh
<1>4. failures' \in Nat /\ (failures' = 0 => failures = 0 /\ Works)
  BY <1>1, <1>3, FailureFacts
<1>5. step' \in [Task -> Steps] /\ step'[t] = there /\ \A u \in Task : u # t => step'[u] = step[u]
  BY <1>1, <1>2, GoesFacts DEF Steps
<1>6. \A kind, S : /\ Some(kind, S) /\ (kind # work[t] \/ step[t] \notin S \/ there \in S) => Some(kind, S)'
                   /\ Some(kind, S)' => Some(kind, S) \/ (kind = work[t] /\ there \in S)
                   /\ kind = work[t] /\ there \in S => Some(kind, S)'
  BY <1>1, <1>2, SomeFacts DEF Steps
<1>7. work[t] \in {"isolate", "unisolate"}
  BY DEF Netsh, Does
<1>8. FileInv' /\ KillInv' /\ LinuxInv' /\ MacInv'
  BY <1>1, <1>4, <1>5, <1>7, FileKeptBy, KillKept DEF HostInv, LinuxInv, MacInv
<1>9. \A a \in {"rules", "policy", "ok", "failed"} : Goes(t, a) => a = there
  BY <1>1, <1>5 DEF Goes, HostTypes
<1> SUFFICES /\ fw' \in [block : BOOLEAN, pass : SUBSET Allow, anchor : SUBSET Allow, on : BOOLEAN]
             /\ pending' \in [Task -> SUBSET Allow] /\ WindowsInv'
  BY <1>1, <1>4, <1>5, <1>8 DEF HostInv, HostTypes
<1>10. CASE /\ Does(t, "isolate", "start") /\ there = "rules"
            /\ fw' = [fw EXCEPT !.block = TRUE] /\ pending' = [pending EXCEPT ![t] = Allow]
  <2>1. /\ fw'.block = TRUE /\ fw'.pass = fw.pass
        /\ fw' \in [block : BOOLEAN, pass : SUBSET Allow, anchor : SUBSET Allow, on : BOOLEAN]
        /\ pending' \in [Task -> SUBSET Allow] /\ pending'[t] = Allow
    BY <1>1, <1>10 DEF HostTypes
  <2>2. Does(t, "isolate", "rules")'
    BY <1>1, <1>5, <1>10 DEF Does
  <2>3. WindowsInv'
    BY <1>1, <1>4, <1>6, <1>10, <2>1, <2>2 DEF HostInv, WindowsInv, Does
  <2> QED BY <2>1, <2>3
<1>11. ASSUME NEW a \in pending[t], Does(t, "isolate", "rules"),
              pending' = [pending EXCEPT ![t] = @ \ {a}],
              there = IF pending[t] = {a} THEN "ok" ELSE "rules",
              \/ Works /\ fw' = [fw EXCEPT !.pass = @ \cup {a}]
              \/ Fails /\ UNCHANGED fw
       PROVE  /\ fw' \in [block : BOOLEAN, pass : SUBSET Allow, anchor : SUBSET Allow, on : BOOLEAN]
              /\ pending' \in [Task -> SUBSET Allow] /\ WindowsInv'
  <2>1. /\ a \in Allow /\ pending' \in [Task -> SUBSET Allow] /\ pending'[t] = pending[t] \ {a}
        /\ \A u \in Task : u # t => pending'[u] = pending[u]
    BY <1>1, <1>11 DEF HostTypes
  <2>2. fw' \in [block : BOOLEAN, pass : SUBSET Allow, anchor : SUBSET Allow, on : BOOLEAN]
    BY <1>1, <1>11, <2>1 DEF HostTypes
  <2>3. CASE failures' # 0
    BY <2>1, <2>2, <2>3 DEF WindowsInv
  <2>4. CASE failures' = 0
    <3>1. fw'.block = fw.block /\ fw'.pass = fw.pass \cup {a} /\ failures = 0
      <4>1. fw' = [fw EXCEPT !.pass = @ \cup {a}] /\ failures = 0
        BY <1>1, <1>4, <1>11, <2>4 DEF Works, Fails, HostTypes
      <4> QED BY <1>1, <4>1 DEF HostTypes
    <3>2. ASSUME NEW b \in Allow, fw.block
          PROVE  \/ b \in fw'.pass \/ Some("unisolate", {"policy"})'
                 \/ \E u \in Task : Does(u, "isolate", "rules")' /\ b \in pending'[u]
      <4>1. CASE b \in fw.pass \cup {a}
        BY <3>1, <4>1
      <4>2. CASE Some("unisolate", {"policy"})
        BY <1>6, <1>11, <4>2 DEF Does
      <4>3. ASSUME NEW u \in Task, Does(u, "isolate", "rules"), b \in pending[u], b # a
            PROVE  Does(u, "isolate", "rules")' /\ b \in pending'[u]
        <5>1. CASE u = t
          BY <1>1, <1>5, <1>11, <2>1, <4>3, <5>1 DEF Does
        <5>2. CASE u # t
          BY <1>1, <1>5, <2>1, <4>3, <5>2 DEF Does
        <5> QED BY <5>1, <5>2
      <4> QED BY <1>1, <3>1, <3>2, <4>1, <4>2, <4>3 DEF HostInv, WindowsInv
    <3>3. \A kind : /\ Some(kind, {"rules", "ok"})' <=> Some(kind, {"rules", "ok"})
                    /\ kind # "isolate" => (Some(kind, {"ok"})' <=> Some(kind, {"ok"}))
      BY <1>6, <1>11 DEF Does, Some
    <3>4. WindowsInv'
      BY <1>1, <3>1, <3>2, <3>3 DEF HostInv, WindowsInv
    <3> QED BY <2>1, <2>2, <3>4
  <2> QED BY <2>3, <2>4
<1>12. CASE /\ Does(t, "unisolate", "start") /\ there = "policy" /\ pending' = pending
            /\ \/ Works /\ fw' = AfterClear(Clear.first)
               \/ Fails /\ UNCHANGED fw
  <2>1. /\ fw' \in [block : BOOLEAN, pass : SUBSET Allow, anchor : SUBSET Allow, on : BOOLEAN]
        /\ fw'.block = fw.block
    BY <1>1, <1>12 DEF HostTypes, AfterClear, Clear
  <2>2. WindowsInv'
    BY <1>1, <1>4, <1>6, <1>12, <2>1 DEF HostInv, WindowsInv, Does
  <2> QED BY <1>1, <1>12, <2>1, <2>2 DEF HostTypes
<1>13. CASE /\ Does(t, "unisolate", "policy") /\ there = "ok" /\ pending' = pending
            /\ fw' = AfterClear(Clear.second)
  <2>1. /\ fw' \in [block : BOOLEAN, pass : SUBSET Allow, anchor : SUBSET Allow, on : BOOLEAN]
        /\ fw'.block = FALSE
    BY <1>1, <1>13 DEF HostTypes, AfterClear, Clear
  <2>2. WindowsInv'
    BY <1>1, <1>4, <1>6, <1>13, <2>1 DEF HostInv, WindowsInv, Does
  <2> QED BY <1>1, <1>13, <2>1, <2>2 DEF HostTypes
<1>14. CASE Fails /\ UNCHANGED <<fw, pending>>
  <2>1. failures' # 0
    BY <1>1, <1>14 DEF Fails, HostTypes
  <2> QED BY <1>1, <1>14, <2>1 DEF HostTypes, WindowsInv
<1> QED BY <1>9, <1>10, <1>11, <1>12, <1>13, <1>14 DEF Netsh
---------------------------------------------------------------------------
(* quarantine::run and kill::run                                           *)

\* A file operation.
LEMMA QuarantineStep ==
    ASSUME HostInv, NEW t \in Task, Quarantine(t)
    PROVE  HostInv'
<1>1. work[t] = "quarantine" /\ UNCHANGED <<os, work, pending, fw, alive>> /\ HostTypes
  BY DEF Quarantine, Does, HostInv
<1>2. PICK there \in {"rename", "copy", "remove", "seal", "ok", "failed"} : Goes(t, there)
  BY DEF Quarantine
<1>3. Works \/ Fails
  BY DEF Quarantine
<1>4. failures' \in Nat /\ (failures' = 0 => failures = 0 /\ Works)
  BY <1>1, <1>3, FailureFacts
<1>5. step' \in [Task -> Steps] /\ step'[t] = there /\ \A u \in Task : u # t => step'[u] = step[u]
  BY <1>1, <1>2, GoesFacts DEF Steps
<1>6. LinuxInv' /\ MacInv' /\ WindowsInv' /\ KillInv'
  BY <1>1, <1>4, <1>5, FirewallKept, KillKept DEF HostInv
<1>7. \A a \in {"rename", "copy", "remove", "seal", "ok", "failed"} : Goes(t, a) => a = there
  BY <1>1, <1>5 DEF Goes, HostTypes
<1> SUFFICES file' \in [there : BOOLEAN, copies : SUBSET Task, sealed : SUBSET Task] /\ FileInv'
  BY <1>1, <1>4, <1>5, <1>6 DEF HostInv, HostTypes
<1>8. CASE there \in {"rename", "copy", "failed"} /\ file' = file
  BY <1>1, <1>4, <1>5, <1>8 DEF HostInv, HostTypes, FileInv
<1>9. CASE there = "seal" /\ file' = [file EXCEPT !.there = FALSE, !.copies = @ \cup {t}]
  <2>1. /\ file'.there = FALSE /\ file'.copies = file.copies \cup {t} /\ file'.sealed = file.sealed
        /\ file' \in [there : BOOLEAN, copies : SUBSET Task, sealed : SUBSET Task]
    BY <1>1, <1>9 DEF HostTypes
  <2> QED BY <1>1, <1>4, <1>5, <1>9, <2>1 DEF HostInv, FileInv
<1>10. CASE there = "remove" /\ file' = Copied(t)
  <2>1. /\ file'.there = file.there /\ file'.copies = file.copies \cup {t} /\ file'.sealed = file.sealed
        /\ file' \in [there : BOOLEAN, copies : SUBSET Task, sealed : SUBSET Task]
    BY <1>1, <1>10 DEF HostTypes, Copied
  <2> QED BY <1>1, <1>4, <1>5, <1>10, <2>1 DEF HostInv, FileInv
<1>11. CASE /\ Does(t, "quarantine", "remove") /\ there = "seal"
            /\ file' = [file EXCEPT !.there = FALSE]
  <2>1. /\ file'.there = FALSE /\ file'.copies = file.copies /\ file'.sealed = file.sealed
        /\ file' \in [there : BOOLEAN, copies : SUBSET Task, sealed : SUBSET Task]
    BY <1>1, <1>11 DEF HostTypes
  <2>2. t \in file.copies
    BY <1>11 DEF HostInv, FileInv, Does
  <2> QED BY <1>1, <1>4, <1>5, <1>11, <2>1, <2>2 DEF HostInv, FileInv
<1>12. CASE /\ Does(t, "quarantine", "seal") /\ there = "ok"
            /\ file' = [file EXCEPT !.sealed = @ \cup {t}]
  <2>1. /\ file'.there = file.there /\ file'.copies = file.copies /\ file'.sealed = file.sealed \cup {t}
        /\ file' \in [there : BOOLEAN, copies : SUBSET Task, sealed : SUBSET Task]
    BY <1>1, <1>12 DEF HostTypes
  <2> QED BY <1>1, <1>4, <1>5, <1>12, <2>1 DEF HostInv, FileInv, Does
<1>13. CASE Does(t, "quarantine", "seal") /\ there = "ok" /\ Fails /\ file' = file
  <2>1. failures' # 0
    BY <1>1, <1>13 DEF Fails, HostTypes
  <2> QED BY <1>1, <1>5, <1>13, <2>1 DEF HostInv, HostTypes, FileInv, Does
<1> QED BY <1>7, <1>8, <1>9, <1>10, <1>11, <1>12, <1>13 DEF Quarantine

\* A process is killed, or all with the same image.
LEMMA KillStep ==
    ASSUME HostInv, NEW t \in Task, NEW p \in DOMAIN Image, KillPid(t, p) \/ KillHash(t, Image[p])
    PROVE  HostInv'
<1>1. /\ work[t] = "kill" /\ step[t] = "start" /\ HostTypes
      /\ UNCHANGED <<os, work, pending, fw, file>>
  BY DEF KillPid, KillHash, Does, HostInv
<1>2. PICK there \in {"ok", "failed"} : Goes(t, there)
  BY DEF KillPid, KillHash
<1>3. Works \/ Fails
  BY DEF KillPid, KillHash
<1>4. failures' \in Nat /\ (failures' = 0 => failures = 0 /\ Works)
  BY <1>1, <1>3, FailureFacts
<1>5. step' \in [Task -> Steps] /\ step'[t] = there /\ \A u \in Task : u # t => step'[u] = step[u]
  BY <1>1, <1>2, GoesFacts DEF Steps
<1>6. LinuxInv' /\ MacInv' /\ WindowsInv' /\ FileInv'
  BY <1>1, <1>4, <1>5, FirewallKept, FileKeptBy DEF HostInv
<1>7. alive' \subseteq alive
  BY DEF KillPid, KillHash
<1>8. there = "ok" /\ failures' = 0 => alive' # alive
  <2> SUFFICES ASSUME there = "ok", failures' = 0 PROVE alive' # alive
    OBVIOUS
  <2>1. ~Fails /\ ~Goes(t, "failed")
    BY <1>1, <1>4, <1>5 DEF Works, Fails, Goes, HostTypes
  <2>2. CASE KillPid(t, p)
    BY <2>1, <2>2 DEF KillPid
  <2>3. CASE KillHash(t, Image[p])
    BY <2>1, <2>3 DEF KillHash
  <2> QED BY <2>2, <2>3
<1>9. KillInv'
  BY <1>1, <1>4, <1>5, <1>7, <1>8 DEF HostInv, KillInv, Some
<1> QED BY <1>1, <1>4, <1>5, <1>6, <1>9 DEF HostInv, HostTypes

\* The agent ends, and its threads with it.
LEMMA EndStep ==
    ASSUME HostInv, AgentEnds
    PROVE  HostInv'
<1>1. /\ step' = [t \in Task |-> IF step[t] \in {"ok", "failed"} THEN step[t] ELSE "gone"]
      /\ failures' = failures + 1
      /\ UNCHANGED <<os, work, pending, fw, file, alive>>
  BY DEF AgentEnds, Fails
<1>2. failures' \in Nat /\ failures' # 0
  BY <1>1 DEF HostInv, HostTypes
<1>3. step' \in [Task -> Steps] /\ \A t \in Task : step'[t] = step[t] \/ step'[t] = "gone"
  BY <1>1 DEF HostInv, HostTypes, Steps
<1>4. HostTypes'
  BY <1>1, <1>2, <1>3 DEF HostInv, HostTypes
<1>5. LinuxInv' /\ MacInv' /\ WindowsInv' /\ KillInv'
  BY <1>1, <1>2 DEF HostInv, LinuxInv, MacInv, WindowsInv, KillInv
<1>6. FileInv'
  BY <1>1, <1>2, <1>3 DEF HostInv, FileInv
<1> QED BY <1>4, <1>5, <1>6 DEF HostInv

---------------------------------------------------------------------------
(* Theorems                                                                *)

\* The first states, of a host that is open or isolated, satisfy the invariant.
LEMMA HostInit == ResponseInit => HostInv
<1> SUFFICES ASSUME ResponseInit PROVE HostInv
  OBVIOUS
<1> DEFINE shut == [Open EXCEPT !.block = TRUE, !.pass = Allow, !.on = TRUE]
<1>1. /\ Open \in [block : BOOLEAN, pass : SUBSET Allow, anchor : SUBSET Allow, on : BOOLEAN]
      /\ Open.block = FALSE /\ Open.anchor = {}
  BY DEF Open
<1>2. /\ shut \in [block : BOOLEAN, pass : SUBSET Allow, anchor : SUBSET Allow, on : BOOLEAN]
      /\ shut.pass = Allow /\ shut.anchor = {}
  BY DEF Open
<1>3. fw = Open \/ fw = shut
  BY DEF ResponseInit
<1> HIDE DEF shut
<1>4. /\ fw \in [block : BOOLEAN, pass : SUBSET Allow, anchor : SUBSET Allow, on : BOOLEAN]
      /\ fw.anchor = {} /\ (fw.block => fw.pass = Allow)
  BY <1>1, <1>2, <1>3
<1>5. /\ file \in [there : BOOLEAN, copies : SUBSET Task, sealed : SUBSET Task] /\ file.there
  BY DEF ResponseInit
<1>6. \A t \in Task : step[t] = "start"
  BY DEF ResponseInit
<1>7. \A kind : /\ ~Some(kind, {"ok"}) /\ ~Some(kind, {"load"}) /\ ~Some(kind, {"enable", "ok"})
                /\ ~Some(kind, {"rules", "ok"})
  BY <1>6 DEF Some
<1>8. HostTypes
  BY <1>4, <1>5 DEF ResponseInit, HostTypes, Steps
<1>9. LinuxInv /\ MacInv /\ WindowsInv
  BY <1>4, <1>7 DEF LinuxInv, MacInv, WindowsInv
<1>10. FileInv /\ KillInv
  BY <1>5, <1>6, <1>7 DEF ResponseInit, FileInv, KillInv
<1> QED BY <1>8, <1>9, <1>10 DEF HostInv

\* The inductive invariant holds, whatever the threads do and whichever calls
\* fail.
THEOREM HostInvariant == ResponseSpec => []HostInv
<1>1. HostInv /\ [ResponseNext]_responseVars => HostInv'
  <2> SUFFICES ASSUME HostInv, [ResponseNext]_responseVars PROVE HostInv'
    OBVIOUS
  <2>1. CASE UNCHANGED responseVars
    BY <2>1 DEF responseVars, HostInv, HostTypes, LinuxInv, MacInv, WindowsInv, FileInv, KillInv,
                Some, Does
  <2>2. CASE ResponseNext
    BY <2>2, NftStep, PfctlStep, NetshStep, QuarantineStep, KillStep, EndStep DEF ResponseNext
  <2> QED BY <2>1, <2>2
<1> QED BY HostInit, <1>1, PTL DEF ResponseSpec

\* A contained host keeps its link to the server, a quarantined file is never
\* lost, and without failed calls a result tells what became of the host,
\* however the threads of the commands interleave.
THEOREM ResponsesKept == ResponseSpec => []ResponsesHold
<1>1. HostInv => ResponsesHold
  <2> SUFFICES ASSUME HostInv PROVE ResponsesHold
    OBVIOUS
  <2>1. {"loopback", Control} \subseteq Allow
    BY DEF Allow
  <2>2. Over => ~Some("unisolate", {"policy"}) /\ \A t \in Task : ~Does(t, "isolate", "rules")
    BY DEF Over, Some, Does
  <2>3. LinkKept
    <3>1. CASE os # "windows"
      BY <2>1, <3>1 DEF HostInv, HostTypes, LinuxInv, MacInv, LinkKept, Blocks
    <3>2. CASE os = "windows"
      BY <2>1, <2>2, <3>2 DEF HostInv, WindowsInv, LinkKept, Blocks
    <3> QED BY <3>1, <3>2
  <2>4. FileKept
    BY DEF HostInv, FileInv, FileKept, Ended
  <2>5. ResultTells
    <3> SUFFICES ASSUME Over, failures = 0, NEW t \in Task
                 PROVE  /\ Ended(t, "isolate", "ok") => Blocks \/ \E u \in Task : Ended(u, "unisolate", "ok")
                        /\ Ended(t, "unisolate", "ok") => ~Blocks \/ \E u \in Task : Ended(u, "isolate", "ok")
                        /\ Ended(t, "quarantine", "ok") => t \in file.sealed
                        /\ Ended(t, "kill", "ok") => alive # DOMAIN Image
      BY DEF ResultTells
    <3>1. \A kind : Some(kind, {"ok"}) <=> \E u \in Task : Ended(u, kind, "ok")
      BY DEF Some, Ended
    <3>2. \A kind : /\ ~Some(kind, {"write", "load"})
                    /\ Some(kind, {"enable", "ok"}) <=> Some(kind, {"ok"})
                    /\ Some(kind, {"rules", "ok"}) <=> Some(kind, {"ok"})
      BY DEF Over, Some
    <3>3. Ended(t, "isolate", "ok") => Blocks \/ \E u \in Task : Ended(u, "unisolate", "ok")
      BY <3>1, <3>2 DEF HostInv, HostTypes, LinuxInv, MacInv, WindowsInv, Blocks
    <3>4. Ended(t, "unisolate", "ok") => ~Blocks \/ \E u \in Task : Ended(u, "isolate", "ok")
      BY <3>1, <3>2 DEF HostInv, HostTypes, LinuxInv, MacInv, WindowsInv, Blocks
    <3>5. Ended(t, "quarantine", "ok") => t \in file.sealed
      BY DEF HostInv, FileInv, Ended
    <3>6. Ended(t, "kill", "ok") => alive # DOMAIN Image
      BY <3>1 DEF HostInv, KillInv
    <3> QED BY <3>3, <3>4, <3>5, <3>6
  <2> QED BY <2>3, <2>4, <2>5 DEF ResponsesHold
<1> QED BY HostInvariant, <1>1, PTL
=============================================================================
