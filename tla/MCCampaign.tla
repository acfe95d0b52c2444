----------------------------- MODULE MCCampaign -----------------------------
(* Runs of a campaign, a graph of two children, and one run that is resumed.              *)
EXTENDS Campaign, TLC

CONSTANTS a, b, s1, s2, s3, o, x, y

Itself == [r \in Runs |-> r]

Plan(home, owner, fake, steps) ==
  [home |-> home, owner |-> owner, fake |-> fake, steps |-> [z \in Agents |-> steps]]

\* Two runs of a campaign; a graph of two children; one agent of an ordinary run, the
\* other left out; one child with two agents, one of them fake.
MCPlans ==
  {Plan(a :> s1 @@ b :> s2, Itself, {}, 1),
   Plan(a :> x @@ b :> y, [Itself EXCEPT ![x] = o, ![y] = o], {}, 1),
   Plan(a :> x @@ b :> x, [Itself EXCEPT ![x] = o], {b}, 1),
   Plan(a :> y @@ b :> y, [Itself EXCEPT ![y] = o], {a}, 1)}
  \cup {Plan([w \in Agents |-> IF w = z THEN o ELSE s3], Itself, {}, 2) : z \in Agents}

MCLimits == [invocations |-> 2, requests |-> 2, tools |-> 1, tokens |-> 3,
             seconds |-> 1]
MCEnvelope == [attempts |-> 2, tokens |-> 7, seconds |-> 2]

\* Nothing tells the clients apart, nor one agent with its run from the other.
Swapped == (a :> b) @@ (b :> a) @@ (s1 :> s2) @@ (s2 :> s1) @@ (x :> y) @@ (y :> x)
Symmetric == {p @@ q : p \in Permutations(Clients),
                       q \in {Swapped, [z \in DOMAIN Swapped |-> z]}}
=============================================================================
