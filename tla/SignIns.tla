------------------------------- MODULE SignIns -------------------------------
(***************************************************************************)
(* What the session routes promise, without rows, handlers or clocks: a    *)
(* sign-in is half or full from the start; only a right code of its own    *)
(* challenge makes a half one full; and what has ended never comes back.   *)
(* It ends when its time is over, or when a sign-out that was ordered with *)
(* a full sign-in of its user or an admin ends all its user's at once.     *)
(* Sessions implements this.                                               *)
(***************************************************************************)

CONSTANTS
    Users,
    Admins,     \* users who may order the sign-out of others
    Executions, \* requests: each is a sign-in or asks for something else
    Nobody      \* the user of a sign-in that is not there

VARIABLES
    status,     \* status[s]: how far sign-in s is, and whose it is
    ordered     \* users whose sign-out was ordered and is not done

vars == <<status, ordered>>

Unused == [of |-> Nobody, is |-> "unused"]

Over == [of |-> Nobody, is |-> "over"]

Init ==
    /\ status = [s \in Executions |-> Unused]
    /\ ordered = {}

-----------------------------------------------------------------------------

Becomes(s, state) == status' = [status EXCEPT ![s] = state]

Begin(s) ==
    /\ status[s] = Unused
    /\ \E u \in Users, h \in {"half", "full"} : Becomes(s, [of |-> u, is |-> h])
    /\ UNCHANGED ordered

\* A right code, and then the second factor counts.
Prove(s) ==
    /\ status[s].is = "half"
    /\ Becomes(s, [status[s] EXCEPT !.is = "proved"])
    /\ UNCHANGED ordered

Promote(s) ==
    /\ status[s].is = "proved"
    /\ Becomes(s, [status[s] EXCEPT !.is = "full"])
    /\ UNCHANGED ordered

\* Its time is over; of an unused one, it failed or is a request for
\* something else.
End(s) ==
    /\ status[s] # Over
    /\ Becomes(s, Over)
    /\ UNCHANGED ordered

\* A request x for u's sign-out, made with a full sign-in.
Order(x, u) ==
    /\ status[x] = Unused
    /\ \E s \in Executions : status[s].is = "full" /\ status[s].of \in {u} \cup Admins
    /\ Becomes(x, Over)
    /\ ordered' = ordered \cup {u}

\* Another order for the same user may remain.
SignOut(u) ==
    /\ ordered' \in {ordered, ordered \ {u}}
    /\ status' = [s \in Executions |-> IF status[s].of = u THEN Over ELSE status[s]]

\* The order failed.
Forget(u) ==
    /\ ordered' = ordered \ {u}
    /\ UNCHANGED status

Next ==
    \/ status' # status /\ \E s \in Executions :
          Begin(s) \/ Prove(s) \/ Promote(s) \/ End(s) \/ \E u \in Users : Order(s, u)
    \/ \E u \in ordered : SignOut(u) \/ Forget(u)

Spec == Init /\ [][Next]_vars

=============================================================================
