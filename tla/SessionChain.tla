----------------------------- MODULE SessionChain -----------------------------
(***************************************************************************)
(* What the rotation of refresh tokens promises of a login's session: it   *)
(* is one chain of tokens, of which at most one can be used at a time;     *)
(* using it up makes way for one token never seen before, or for none; and *)
(* a session that ended stays ended.  A session bears the name of its      *)
(* first token.  Of a session whose client shows one usable token to two   *)
(* requests nothing is promised any more, except that it only hands out    *)
(* tokens that are new.                                                    *)
(***************************************************************************)
CONSTANT Tokens

VARIABLES
    phase,   \* phase[f]: "unopened", "open", "changing", "ended", "forked"
    usable,  \* usable[f]: the tokens of f that can still be exchanged
    used     \* the tokens handed out so far

vars == <<phase, usable, used>>

Init ==
    /\ phase  = [f \in Tokens |-> "unopened"]
    /\ usable = [f \in Tokens |-> {}]
    /\ used   = {}

Move(f, from, to, tokens) ==
    /\ phase[f] \in from
    /\ phase'  = [phase EXCEPT ![f] = to]
    /\ usable' = [usable EXCEPT ![f] = tokens]

HandOut(t) == t \notin used /\ used' = used \cup {t}

(* A login: its first token is new. *)
Open(f) == Move(f, {"unopened"}, "open", {f}) /\ HandOut(f)

(* The token is exchanged: it cannot be used again ... *)
Exchange(f) == Move(f, {"open"}, "changing", {}) /\ UNCHANGED used

(* ... and the next one takes its place. *)
Renew(f, t) == Move(f, {"changing"}, "open", {t}) /\ HandOut(t)

(* Logged out, expired, or lost with the process that was to renew it. *)
End(f) == Move(f, {"open", "changing"}, "ended", {}) /\ UNCHANGED used

(* The client shows the token to a second request: the chain may split,    *)
(* and its parts hand out tokens of their own.                             *)
Fork(f) == Move(f, {"open"}, "forked", {}) /\ UNCHANGED used

Stray(t) ==
    /\ \E f \in Tokens : phase[f] = "forked"
    /\ HandOut(t)
    /\ UNCHANGED <<phase, usable>>

Next ==
    \/ \E f \in Tokens : Open(f) \/ Exchange(f) \/ End(f) \/ Fork(f)
    \/ \E f, t \in Tokens : Renew(f, t)
    \/ \E t \in Tokens : Stray(t)

Spec == Init /\ [][Next]_vars
=============================================================================
