------------------------- MODULE MCWorkspaceMembership -------------------------
(* Values of the constants of WorkspaceMembership for TLC. *)
EXTENDS WorkspaceMembership, TLC

CONSTANTS ann, bob, eve, r1, r2, h1

MCMembers == {ann, bob, eve}
MCSlots == {r1, r2}

\* The caps of the tiers, scaled down.
MCMaxSeats == [t \in Tiers |-> CASE t = "starter" -> 1
                                 [] t = "growth" -> 2
                                 [] t = "enterprise" -> Unlimited]

MCOnSale == {"starter", "growth"}

MCUpdates == {<<"starter", "active">>, <<NoTier, "unpaid">>}

\* Nobody is or was a member, or is about to be one.
Memberless == /\ member = [m \in Members |-> "none"]
              /\ request = [r \in Slots |-> NoRequest]

\* Without members, billing has all its events and acts.  With them there are two
\* events, of which the first is the larger plan, so that there is a smaller one
\* to go to, and the statuses are one that lets members in and one that does not;
\* an administrator sets a plan; and at most one member is seated through SCIM.
Bounds == \/ Memberless
          \/ /\ Len(events) <= 2
             /\ events # <<>> => events[1].tier = "growth"
             /\ \A i \in DOMAIN events : events[i].status \in {"active", "canceled"}
             /\ ~admin.suspended /\ "status" \notin admin.columns
             /\ Cardinality(provisioned) <= 1

\* The seats do not depend on which events were written, nor on which columns an
\* administrator wrote last: no guard reads either, and what they say of billing
\* is looked at without members.
View == <<roster, workspace, handlers, subscription, seats, had, admin.acts,
          IF Memberless THEN <<applied, admin>> ELSE <<>>>>

Symmetry == Permutations(MCMembers) \union Permutations(MCSlots)
===============================================================================
