---------------------------- MODULE VerifyAccept ----------------------------
(***************************************************************************)
(* The arithmetic of verify_and_accept (engine/spec_decode.py) for one     *)
(* draft token: p is the target's row, q the draft's, and the token that   *)
(* comes out is to be distributed as p whatever q is.                      *)
(*                                                                         *)
(* A row gives every token a whole number of shares out of Shares, so the  *)
(* law of the result is exact; what floating point rounds is left out.     *)
(* The rows of a draft are independent of each other once their contexts   *)
(* are fixed (SpecDecode), so one token stands for each of them.           *)
(***************************************************************************)
EXTENDS Sampling

VARIABLES p, q,   \* target_p[i], draft_q[i]
          x,      \* draft_ids[i]
          out,    \* the token appended to `accepted'
          pc

vars == <<p, q, x, out, pc>>

None == "none"

Init ==
    /\ p \in Rows /\ q \in Rows
    /\ x = None /\ out = None
    /\ pc = "draft"

\* The drafter samples its proposal from q.
Propose ==
    /\ pc = "draft"
    /\ x' \in Support(q)
    /\ pc' = "verify"
    /\ UNCHANGED <<p, q, out>>

\* A bug to catch: a draft token is accepted with the target's probability.
AcceptOfPlain(t) == <<p[t], Shares>>

\* accept_prob = min(1, p/q) of token t, as <<numerator, denominator>>.
AcceptOf(t) == IF q[t] > 0 THEN <<Min({p[t], q[t]}), q[t]>> ELSE <<0, 1>>

\* A bug to catch: the correction is drawn from the target's row as it is.
ResidualPlain == p

\* max(0, p - q), or p itself when that is zero everywhere.
Residual ==
    LET r == [t \in Tokens |-> Max({0, p[t] - q[t]})]
    IN  IF Total(r) = 0 THEN p ELSE r

\* A random number below accept_prob exists unless it is zero ...
Accept ==
    /\ pc = "verify" /\ AcceptOf(x)[1] > 0
    /\ out' = x
    /\ pc' = "accepted"
    /\ UNCHANGED <<p, q, x>>

\* ... and one that is not below it unless it is one.
Reject ==
    /\ pc = "verify" /\ AcceptOf(x)[1] < AcceptOf(x)[2]
    /\ out' \in Support(Residual)
    /\ pc' = "rejected"
    /\ UNCHANGED <<p, q, x>>

Next == Propose \/ Accept \/ Reject

Spec == Init /\ [][Next]_vars

-----------------------------------------------------------------------------
\* Shares of the outcome "t was proposed and accepted", out of Shares * Scale.
Scale == ProductSet({ AcceptOf(t)[2] : t \in Tokens })

AcceptMass(t) == q[t] * AcceptOf(t)[1] * (Scale \div AcceptOf(t)[2])

RejectMass == Shares * Scale - MapThenSumSet(AcceptMass, Tokens)

(***************************************************************************)
(* "This is provably distribution-preserving" (the module's docstring):    *)
(* the mass a token gets by being proposed and accepted, and by being the  *)
(* correction after any rejection, is the mass the target gives it.        *)
(***************************************************************************)
LawIsTargets ==
    \A t \in Tokens :
      AcceptMass(t) * Total(Residual) + RejectMass * Residual[t]
        = p[t] * Scale * Total(Residual)

(***************************************************************************)
(* What SpecDecode takes over: a token is accepted only if the target may  *)
(* give it, and a correction is another token the target may give.  Greedy *)
(* exactness (a one-hot p: accepted if it is that token, corrected to it   *)
(* if not) is the case of a single such token, without special-casing.     *)
(***************************************************************************)
OutcomesAreSupports ==
    /\ pc = "accepted" => out \in Support(p)
    /\ pc = "rejected" => out \in Support(p) \ {x}
=============================================================================
