----------------------------- MODULE MCJournal -----------------------------
(***************************************************************************)
(* Two seeded markets linked by the joint and one created later.  Impacts  *)
(* are kl_divergence in tenths, with ln 10^6 scaled down to the limit.     *)
(***************************************************************************)
EXTENDS JournalReads

CONSTANTS m1, m2, m3, ann, bob, k1

Low == Uniform
High == Uniform + 1

\* An outcome without mass before or after drops out of the sum, so leaving
\* Zero costs less than nothing.
MCImpact ==
  [old \in Levels |->
    [new \in Levels |->
       CASE old = new -> 0
         [] old = Zero -> IF new = High THEN -1 ELSE 0
         [] new = Zero -> 2
         [] new = One -> 2
         [] OTHER -> 3]]

Request(m, a, k, p) == [market |-> m, account |-> a, key |-> k, payload |-> p]
EditTo(level, c) == [level |-> level, context |-> c]
Given(m, wide) == [on |-> m, yes |-> TRUE, wide |-> wide]
Buy(o, n) == [outcome |-> o, delta |-> n]

MCSeedRows ==
  [m \in Markets |-> IF m = m1 THEN [c \in {Given(m2, FALSE)} |-> High] ELSE NoRows]

MCRequests ==
  {Request(m1, ann, k, EditTo(l, NoContext)) : k \in {NoKey, k1}, l \in {Tiny, High}}
  \cup {Request(m1, ann, NoKey, EditTo(High, Given(m2, w))) : w \in BOOLEAN}
  \cup {Request(m3, ann, NoKey, EditTo(l, NoContext)) : l \in {Speck, High}}
  \cup {Request(m3, ann, NoKey, EditTo(High, Given(m1, FALSE)))}
  \cup {Request(m1, bob, k1, Buy("yes", n)) : n \in {2, -2}}
  \cup {Request(m1, bob, NoKey, Buy("yes", 2))}
  \cup {Request(m, bob, NoKey, [resolve |-> o]) : m \in {m1, m2}, o \in Outcomes}
  \cup {Request(m3, bob, NoKey, [resolve |-> "yes"])}
  \cup {Request(m, bob, k1, [kind |-> c]) :
           m \in {m1, m3}, c \in {"CloseMarket", "ReopenMarket"}}
  \cup {Request(m3, bob, NoKey, [kind |-> "ReopenMarket"])}
  \cup {Request(m1, ann, k1, [body |-> "text"])}

=============================================================================
