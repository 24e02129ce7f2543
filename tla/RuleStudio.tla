---------------------------- MODULE RuleStudio ----------------------------
(***************************************************************************)
(* The editors of the API: rule_create, rule_update and rule_delete over   *)
(* the rules directory, config_put over the configuration file, and        *)
(* reload_engine, which all of them end in; the node's start, which loads  *)
(* both.                                                                   *)
(*                                                                         *)
(* The handlers hold no lock but the engine's, for the swap alone, and run *)
(* on the threads of the server, so they meet at every file operation.     *)
(* fs::write truncates the file, then fills it: in between, or after a     *)
(* write that failed or a crash, the file has a part of the text.  What    *)
(* there is of it is torn, which no parser accepts, or parses: a part of a *)
(* rule may compile, and in a configuration every section but the version  *)
(* has a default.  Of a rule, its id and its version are kept; of a        *)
(* configuration, its secrets: auth.jwt_secret and the credential of one   *)
(* user.  A request that is refused at once (role, a rule that does not    *)
(* compile) changes nothing and is left out.                               *)
(***************************************************************************)
EXTENDS Integers, FiniteSets

CONSTANTS
    Rule, NoRule,   \* rule ids, and none
    File,           \* files below rules_dir
    Nested,         \* the ones in a subdirectory
    FileOf,         \* FileOf[i]: the file sanitize(i).yml
    Packaged,       \* Packaged[f]: what f holds at first
    Version,        \* versions of a rule
    Drafts,         \* the submitted rules to choose from
    Secret, Blank,  \* signing secrets, and the empty one
    Key,            \* credentials of the user
    Saves,          \* the submitted configurations to choose from
    Req,            \* requests that may be in progress at a time
    MaxReq,         \* bound: requests in all
    MaxCrash,       \* bound: crashes
    MaxFail         \* bound: writes that fail after the truncation

Doc == [is : {"rule"}, id : Rule, v : Version]
NotRule(k) == [is |-> k, id |-> NoRule, v |-> 0]
Absent == NotRule("absent")
Torn == NotRule("torn")
Bad == NotRule("bad")       \* a correlation, or a rule that does not compile

\* A part of a rule's text: torn, or a rule without all of its parts.
RuleParts(d) == {Torn, [d EXCEPT !.v = 0]}

Config == [is : {"whole"}, jwt : Secret \cup {Blank},
           cred : Key \cup {"nouser", "nocred", "placeholder"}]
TornConfig == [is |-> "torn", jwt |-> Blank, cred |-> "nouser"]

\* A part of a configuration's text: torn, or one that parses, where a section
\* that is missing has its default: no secret, and no users.  What is left of a
\* secret or a user that the cut goes through counts as none.
ConfigParts(c) == {TornConfig} \cup [is : {"cut"}, jwt : {Blank, c.jwt}, cred : {"nouser", c.cred}]

\* What is submitted: a field is given anew, or kept ("kept"; for the secret,
\* Blank), which the structured form says by leaving it out and the YAML form
\* by its placeholder; or a user is submitted without a credential.
Save == [form : {"structured", "yaml"}, jwt : Secret \cup {Blank}, cred : Key \cup {"kept", "nocred"}]

ASSUME RuleStudioAssumption ==
    /\ NoRule \notin Rule /\ Blank \notin Secret
    /\ Key \cap {"nouser", "nocred", "placeholder", "kept"} = {}
    /\ 0 \notin Version /\ Drafts \subseteq Doc
    /\ Nested \subseteq File
    /\ FileOf \in [Rule -> File \ Nested]
    /\ Packaged \in [File -> Doc \cup {Absent, Bad}]
    /\ Saves \subseteq Save
    /\ MaxReq \in Nat /\ MaxCrash \in Nat /\ MaxFail \in Nat

VARIABLES
    files,      \* the rules directory
    engine,     \* SigmaEngine.rules, each with the file it came from
    active,     \* sigma_active of the run loop
    config,     \* the configuration file
    bak,        \* its backup
    req,        \* where each request is
    up,         \* is the node running?
    asked, crashes, fails,      \* used up of the bounds
    \* History, read by no guard:
    overlap,    \* have two requests been in progress at once?
    uncovered,  \* has a save begun without a backup of a whole configuration?
    touched     \* the files that requests wrote or removed

edits == <<files, touched>>
saved == <<config, bak>>
bounds == <<asked, crashes, fails>>
vars == <<edits, saved, bounds, engine, active, req, up, overlap, uncovered>>

\* A handler at pc: the file it edits, what it puts there, the configuration it
\* saves, and the files its reload has yet to read and what it got from others.
Handler(pc, file, doc, new) ==
    [pc |-> pc, file |-> file, doc |-> doc, new |-> new, todo |-> {}, got |-> {}]

NoFile == CHOOSE f \in File : TRUE
Idle == Handler("idle", NoFile, Absent, TornConfig)

\* A handler whose edit is done, and which is about to reload.
Reloading == Handler("list", NoFile, Absent, TornConfig)

\* What file f contributes to an engine: load_dir reports and skips the rest.
Loads(f) == IF files[f].is = "rule" THEN {<<f, files[f]>>} ELSE {}

Loaded == UNION {Loads(f) : f \in File}

Quiet == \A r \in Req : req[r].pc = "idle"

Init ==
    /\ files = Packaged /\ touched = {}
    /\ engine = Loaded /\ active = (engine # {})
    /\ config \in {c \in Config : c.jwt \in Secret /\ c.cred \in Key}
    /\ bak = TornConfig
    /\ req = [r \in Req |-> Idle]
    /\ up = TRUE /\ overlap = FALSE /\ uncovered = FALSE
    /\ asked = 0 /\ crashes = 0 /\ fails = 0

---------------------------------------------------------------------------
(* Requests                                                                *)

\* A handler starts.
Ask(r, q) ==
    /\ up /\ req[r].pc = "idle" /\ asked < MaxReq
    /\ asked' = asked + 1
    /\ overlap' = (overlap \/ ~Quiet)
    /\ req' = [req EXCEPT ![r] = q]
    /\ UNCHANGED <<edits, saved, engine, active, up, crashes, fails, uncovered>>

\* Request r goes on at pc.
Goto(r, pc) == req' = [req EXCEPT ![r].pc = pc]
ToReload(r) == req' = [req EXCEPT ![r] = Reloading]
Done(r) == req' = [req EXCEPT ![r] = Idle]

\* rule_create names the file after the rule, rule_update after the id in the
\* path, whatever the id of the rule in the body.
RuleCreate(r, d) == Ask(r, Handler("truncate", FileOf[d.id], d, TornConfig))
RuleUpdate(r, i, d) == Ask(r, Handler("truncate", FileOf[i], d, TornConfig))

\* What a write leaves in a file that had some of its parts: if another request
\* has written there since, a longer text than this one keeps its tail.
Written(new, parts, old) == IF old \in parts THEN {new} ELSE {new} \cup parts

\* write_rule_file
Truncate(r) ==
    /\ req[r].pc = "truncate"
    /\ \E d \in RuleParts(req[r].doc) : files' = [files EXCEPT ![req[r].file] = d]
    /\ touched' = touched \cup {req[r].file}
    /\ Goto(r, "fill")
    /\ UNCHANGED <<saved, bounds, engine, active, up, overlap, uncovered>>

\* Mutant: the rule is written, and the engine not reloaded.
FillOnly(r) ==
    /\ req[r].pc = "fill"
    /\ files' = [files EXCEPT ![req[r].file] = req[r].doc]
    /\ Done(r)
    /\ UNCHANGED <<touched, saved, bounds, engine, active, up, overlap, uncovered>>

Fill(r) ==
    /\ req[r].pc = "fill"
    /\ \E d \in Written(req[r].doc, RuleParts(req[r].doc), files[req[r].file]) :
           files' = [files EXCEPT ![req[r].file] = d]
    /\ ToReload(r)
    /\ UNCHANGED <<touched, saved, bounds, engine, active, up, overlap, uncovered>>

\* Where delete_rule_file finds rule i: in the file of its name, whatever that
\* holds, or else in any file of the top directory that compiles to it.
RulePaths(i) ==
    IF files[FileOf[i]] # Absent THEN {FileOf[i]}
    ELSE {f \in File \ Nested : files[f].is = "rule" /\ files[f].id = i}

\* With no such file the answer is 404, and nothing happens.
RuleDelete(r, i) == \E f \in RulePaths(i) : Ask(r, Handler("remove", f, Absent, TornConfig))

\* The requests after file f is removed: what one of them was about to fill in
\* goes into the removed file, and it is done writing.
Unlinked(f) ==
    [q \in Req |-> IF req[q].pc = "fill" /\ req[q].file = f THEN Reloading ELSE req[q]]

\* remove_file, which fails if another request was faster.
RemoveFile(r) ==
    /\ req[r].pc = "remove"
    /\ \/ /\ files[req[r].file] # Absent
          /\ files' = [files EXCEPT ![req[r].file] = Absent]
          /\ touched' = touched \cup {req[r].file}
          /\ req' = [Unlinked(req[r].file) EXCEPT ![r] = Reloading]
       \/ /\ files[req[r].file] = Absent
          /\ Done(r)
          /\ UNCHANGED edits
    /\ UNCHANGED <<saved, bounds, engine, active, up, overlap, uncovered>>

---------------------------------------------------------------------------
(* reload_engine: yaml_files lists and reads, the swap takes the lock      *)

List(r) ==
    /\ req[r].pc = "list"
    /\ req' = [req EXCEPT ![r].pc = "read", ![r].todo = {f \in File : files[f] # Absent}]
    /\ UNCHANGED <<edits, saved, bounds, engine, active, up, overlap, uncovered>>

\* Mutant: a file that has vanished ends the listing.
VanishedEnds(r) == [req EXCEPT ![r].todo = {}]

\* A listed file that has vanished fails the load: the engine stays.
Vanished(r) == [req EXCEPT ![r] = Idle]

\* A directory is read in any order, and its subdirectories after it.
ReadFile(r) ==
    /\ req[r].pc = "read"
    /\ \E f \in req[r].todo :
        /\ f \in Nested => req[r].todo \subseteq Nested
        /\ \/ /\ files[f] = Absent
              /\ req' = Vanished(r)
           \/ /\ files[f] # Absent
              /\ req' = [req EXCEPT ![r].todo = @ \ {f}, ![r].got = @ \cup Loads(f)]
    /\ UNCHANGED <<edits, saved, bounds, engine, active, up, overlap, uncovered>>

Swap(r) ==
    /\ req[r].pc = "read" /\ req[r].todo = {}
    /\ engine' = req[r].got
    /\ Done(r)
    /\ UNCHANGED <<edits, saved, bounds, active, up, overlap, uncovered>>

---------------------------------------------------------------------------
(* config_put                                                              *)

\* read_current_config: a file that does not parse counts as a minimal one,
\* without secrets.
Current == IF config.is # "torn" THEN config ELSE [is |-> "whole", jwt |-> Blank, cred |-> "nouser"]

\* Mutant: a secret left blank is saved blank.
ResolvedBlank(s, c) ==
    [is |-> "whole", jwt |-> s.jwt, cred |-> IF s.cred = "kept" THEN c.cred ELSE s.cred]

\* resolve_config_input: merge_secrets for the structured form, restore_yaml
\* for the other, where the placeholder of a user that is not there stays.
Resolved(s, c) ==
    [is    |-> "whole",
     jwt   |-> IF s.jwt = Blank THEN c.jwt ELSE s.jwt,
     cred  |-> IF s.cred # "kept" THEN s.cred
               ELSE IF c.cred \notin {"nouser", "nocred"} THEN c.cred
               ELSE IF s.form = "yaml" THEN "placeholder" ELSE "nocred"]

\* Config::validate: every user needs a credential; the placeholder passes
\* for one, and an empty secret earns a warning.
Valid(c) == c.cred # "nocred"

\* Mutant: everything that parses is saved.
ConfigPutAny(r, s) == Ask(r, Handler("backup", NoFile, Absent, Resolved(s, Current)))

\* The handler reads the current file, resolves and validates; what it
\* rejects it does not write.
ConfigPut(r, s) ==
    /\ Valid(Resolved(s, Current))
    /\ Ask(r, Handler("backup", NoFile, Absent, Resolved(s, Current)))

\* Mutant: no backup is made.
BackUpNot(r) ==
    /\ req[r].pc = "backup"
    /\ Goto(r, "empty")
    /\ UNCHANGED <<edits, saved, bounds, engine, active, up, overlap, uncovered>>

\* fs::copy to the backup, in two steps as well.  No code reads the backup:
\* a part of it counts as torn.
BackUp(r) ==
    /\ req[r].pc = "backup"
    /\ bak' = TornConfig
    /\ uncovered' = (uncovered \/ config.is # "whole")
    /\ Goto(r, "copy")
    /\ UNCHANGED <<edits, config, bounds, engine, active, up, overlap>>

Copy(r) ==
    /\ req[r].pc = "copy"
    /\ bak' \in Written(config, {TornConfig}, bak)
    /\ Goto(r, "empty")
    /\ UNCHANGED <<edits, config, bounds, engine, active, up, overlap, uncovered>>

\* A copy that fails is ignored.
CopyFails(r) ==
    /\ req[r].pc = "copy" /\ fails < MaxFail
    /\ fails' = fails + 1
    /\ uncovered' = TRUE
    /\ Goto(r, "empty")
    /\ UNCHANGED <<edits, saved, asked, crashes, engine, active, up, overlap>>

\* fs::write of the new configuration, then the reload.
Empty(r) ==
    /\ req[r].pc = "empty"
    /\ config' \in ConfigParts(req[r].new)
    /\ Goto(r, "write")
    /\ UNCHANGED <<edits, bak, bounds, engine, active, up, overlap, uncovered>>

Write(r) ==
    /\ req[r].pc = "write"
    /\ config' \in Written(req[r].new, ConfigParts(req[r].new), config)
    /\ ToReload(r)
    /\ UNCHANGED <<edits, bak, bounds, engine, active, up, overlap, uncovered>>

---------------------------------------------------------------------------
(* Failures and the life of the node                                       *)

\* A write fails once the file is truncated: the handler returns.
WriteFails(r) ==
    /\ req[r].pc \in {"fill", "write"} /\ fails < MaxFail
    /\ fails' = fails + 1
    /\ Done(r)
    /\ UNCHANGED <<edits, saved, asked, crashes, engine, active, up, overlap, uncovered>>

\* The process ends, in the middle of whatever it does.
Crash ==
    /\ up /\ crashes < MaxCrash
    /\ crashes' = crashes + 1
    /\ up' = FALSE /\ engine' = {} /\ active' = FALSE
    /\ req' = [r \in Req |-> Idle]
    /\ UNCHANGED <<edits, saved, asked, fails, overlap, uncovered>>

\* run: a configuration that does not load or validate ends it; otherwise
\* the rules are loaded and detection is on if there are any.
Start ==
    /\ ~up /\ config.is # "torn" /\ Valid(config)
    /\ up' = TRUE
    /\ engine' = Loaded
    /\ active' = (Loaded # {})
    /\ UNCHANGED <<edits, saved, req, bounds, overlap, uncovered>>

---------------------------------------------------------------------------
Edit(r) ==
    \/ \E d \in Drafts : RuleCreate(r, d)
    \/ \E i \in Rule, d \in Drafts : RuleUpdate(r, i, d)
    \/ \E i \in Rule : RuleDelete(r, i)
    \/ Truncate(r) \/ Fill(r) \/ RemoveFile(r)

Reload(r) == List(r) \/ ReadFile(r) \/ Swap(r)

Configure(r) ==
    \/ \E s \in Saves : ConfigPut(r, s)
    \/ BackUp(r) \/ Copy(r) \/ CopyFails(r) \/ Empty(r) \/ Write(r)

Next ==
    \/ \E r \in Req : Edit(r) \/ Reload(r) \/ Configure(r) \/ WriteFails(r)
    \/ Crash \/ Start

Spec == Init /\ [][Next]_vars

---------------------------------------------------------------------------
(* Properties                                                              *)

\* Edits one after the other leave the node with the engine that a restart
\* would give it, if every write succeeded: the engine has everything that was
\* written, and nothing that was deleted.  It says what the engine holds: the
\* run loop evaluates it only if there was a rule when the node started, so a
\* node that started without one detects no rule that is added later.
EngineCurrent == up /\ Quiet /\ ~overlap /\ fails = 0 => engine = Loaded

\* However edits, deletions, failed writes and reloads meet, a rule whose file
\* no request touches is detected at every moment the node runs.
UntouchedDetected ==
    up => \A f \in File \ touched :
              files[f].is = "rule" => active /\ <<f, files[f]>> \in engine

\* Saves one at a time keep the secrets: the configuration or its backup is the
\* whole text of one, and whichever is whole has a signing secret and a user's
\* credential, over a crash or a failure at any point of a save.  A part of the
\* text that parses is no loss as long as the backup is there; the save that
\* starts from such a part, and one whose copy failed, are the exceptions.
SecretsKept ==
    ~overlap /\ ~uncovered =>
        /\ config.is = "whole" \/ bak.is = "whole"
        /\ \A c \in {config, bak} : c.is = "whole" => c.jwt \in Secret /\ c.cred \in Key
===========================================================================
