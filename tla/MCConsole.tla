----------------------------- MODULE MCConsole -----------------------------
(***************************************************************************)
(* What the console's users do to a node: patch alerts, edit rules and     *)
(* settings, log in and hand out tokens.  The three share no state, so a   *)
(* behaviour takes one of them and leaves the others alone.                *)
(***************************************************************************)
EXTENDS AlertTriage, RuleStudio, Access, TLC

CONSTANTS a, b, fa, fb, fq, fc, r1, r2

VARIABLE lane

consoleVars == <<triageVars, vars, accessVars, lane>>

---------------------------------------------------------------------------
(* Three alerts of different times over a ring of two, and two analysts'   *)
(* requests: to take an alert, or to close it with a note.                 *)

Times == [n \in {1, 2, 3} |-> n]
Patches == {
    [status |-> Keep, assignee |-> "ann", note |-> FALSE],
    [status |-> "closed", assignee |-> Keep, note |-> TRUE]}
\* Two alerts, and an alert named twice.
FpLists == {<<2, 1>>, <<1, 1>>}

---------------------------------------------------------------------------
(* Two rules: one in the file of its name, one in a packaged file of       *)
(* another name, beside a file in a subdirectory that does not compile.    *)
(* Saves leave the secrets alone, each in its form.                        *)

FileNames == (a :> fa) @@ (b :> fb)
Shipped == (fa :> [is |-> "rule", id |-> a, v |-> 1]) @@ (fb :> Absent)
               @@ (fq :> [is |-> "rule", id |-> b, v |-> 1]) @@ (fc :> Bad)
\* A new version of either rule, for its own file or the other's.
Submitted == {[is |-> "rule", id |-> i, v |-> 2] : i \in Rule}
\* Nothing named, or a user without a credential, which validation refuses.
Forms == {[form |-> f, jwt |-> Blank, cred |-> "kept"] : f \in {"structured", "yaml"}}
         \cup {[form |-> "structured", jwt |-> Blank, cred |-> "nocred"]}

\* The handlers are alike.
Symmetry == Permutations(Req)

---------------------------------------------------------------------------
(* One user who loses a role, or the account, over a fixed and a random    *)
(* signing key, and a node that does not authenticate.                     *)

AuthBlock(enabled, secret, users, seeds) ==
    [enabled |-> enabled, secret |-> secret, users |-> users, tokens |-> seeds]
AuthBlocks == {
    AuthBlock(TRUE, "s", [u \in {"ann"} |-> {"admin", "owner"}], {"seed"}),
    AuthBlock(TRUE, "s", [u \in {"ann"} |-> {"analyst"}], {}),
    AuthBlock(TRUE, "s", [u \in {"bob"} |-> {"viewer", "admin"}], {}),
    AuthBlock(TRUE, NoSecret, [u \in {"ann"} |-> {"admin"}], {}),
    AuthBlock(FALSE, NoSecret, [u \in {"ann"} |-> {"owner"}], {"seed"})}

---------------------------------------------------------------------------
RulesIdle == Init /\ config = [is |-> "whole", jwt |-> "s", cred |-> "k"]
AccessIdle == AccessInit /\ written = AuthBlock(FALSE, NoSecret, [u \in {"ann"} |-> {"owner"}], {"seed"})

ConsoleInit ==
    \/ lane = "triage" /\ TriageInit /\ RulesIdle /\ AccessIdle
    \/ lane = "rules" /\ TriageInit /\ Init /\ AccessIdle
    \/ lane = "access" /\ TriageInit /\ RulesIdle /\ AccessInit

ConsoleNext ==
    \/ lane = "triage" /\ TriageNext /\ UNCHANGED <<vars, accessVars, lane>>
    \/ lane = "rules" /\ Next /\ UNCHANGED <<triageVars, accessVars, lane>>
    \/ lane = "access" /\ AccessNext /\ UNCHANGED <<triageVars, vars, lane>>

ConsoleSpec == ConsoleInit /\ [][ConsoleNext]_consoleVars
============================================================================
