------------------------------ MODULE Clusters ------------------------------
(***************************************************************************)
(* CorrelationMonitor (risk/correlation.py) and what the risk governor     *)
(* makes of its labels.  Only the web console's state() runs clusters(),   *)
(* the union-find over all pairs; until then, and for an asset the last    *)
(* run did not know, a label is the asset's quote currency.  An order      *)
(* counts against the cap under the label it was asked with.               *)
(*                                                                         *)
(* Assets are numbers in their lexicographic order.  A forest is kept as   *)
(* what find returns for each asset, so path halving is out of sight, and  *)
(* the pairs come in any order.  Prices run on meanwhile: a pair may or    *)
(* may not be over the threshold at the moment it is compared.             *)
(***************************************************************************)
EXTENDS Integers, FiniteSets

CONSTANTS
  Assets,       \* naturals
  Currencies, QuoteOf,
  Unlabelled,
  Viewers,      \* threads that serve state()
  Cap           \* max_currency_cluster

VARIABLES
  busy,         \* the viewers inside clusters()
  known,        \* the assets with returns when a viewer's run began
  root, todo,   \* each viewer's find, and the pairs it has not compared
  joined,       \* history: the pairs a viewer has joined in this run
  labels,       \* _clusters
  asked,        \* the order on its way: an asset and its label
  open,         \* orders open, with their labels
  load          \* risk.state.open_clusters

runs == <<busy, known, root, todo, joined>>
clusterVars == <<runs, labels, asked, open, load>>

PairsOf(assets) == {pair \in assets \X assets : pair[1] < pair[2]}
Pairs  == PairsOf(Assets)
Labels == Assets \cup Currencies
Order  == [asset : Assets, label : Labels]

Alone == [a \in Assets |-> a]

\* union: the larger root goes below the smaller.
Union(find, x, y) ==
  LET low  == IF find[x] < find[y] THEN find[x] ELSE find[y]
      high == IF find[x] < find[y] THEN find[y] ELSE find[x]
  IN [a \in Assets |-> IF find[a] = high THEN low ELSE find[a]]

\* clusters(): every asset with returns alone, then every pair of them once,
\* then all labels at once; the others are unlabelled again.
Recluster(v) ==
  /\ v \notin busy /\ busy' = busy \cup {v}
  /\ \E assets \in SUBSET Assets :
       /\ known' = [known EXCEPT ![v] = assets]
       /\ todo' = [todo EXCEPT ![v] = PairsOf(assets)]
  /\ UNCHANGED <<root, joined, labels, asked, open, load>>

Compare(v, pair) ==
  /\ v \in busy /\ pair \in todo[v]
  /\ todo' = [todo EXCEPT ![v] = @ \ {pair}]
  /\ \/ /\ root' = [root EXCEPT ![v] = Union(@, pair[1], pair[2])]
        /\ joined' = [joined EXCEPT ![v] = @ \cup {pair}]
     \/ UNCHANGED <<root, joined>>
  /\ UNCHANGED <<busy, known, labels, asked, open, load>>

Label(v) ==
  /\ v \in busy /\ todo[v] = {}
  /\ busy' = busy \ {v}
  /\ labels' = [a \in Assets |-> IF a \in known[v] THEN root[v][a] ELSE Unlabelled]
  /\ known' = [known EXCEPT ![v] = {}] /\ root' = [root EXCEPT ![v] = Alone]
  /\ joined' = [joined EXCEPT ![v] = {}]
  /\ UNCHANGED <<todo, asked, open, load>>

\* cluster_of.
ClusterOf(a) == IF labels[a] = Unlabelled THEN QuoteOf[a] ELSE labels[a]

\* The engine asks for the label, then submits; one order at a time.
Ask(a) ==
  /\ asked = {}
  /\ asked' = {[asset |-> a, label |-> ClusterOf(a)]}
  /\ UNCHANGED <<runs, labels, open, load>>

\* check's cluster limit, with the per-asset limit of one, then on_open.
Open(order) ==
  /\ order \in asked /\ asked' = {}
  /\ \/ /\ load[order.label] < Cap
        /\ \A other \in open : other.asset # order.asset
        /\ open' = open \cup {order}
        /\ load' = [load EXCEPT ![order.label] = @ + 1]
     \/ UNCHANGED <<open, load>>
  /\ UNCHANGED <<runs, labels>>

\* Seeded fault: the close is booked under the label of the day.
CloseRelabelled(order) ==
  /\ order \in open /\ open' = open \ {order}
  /\ load' = [load EXCEPT ![ClusterOf(order.asset)] = IF @ > 0 THEN @ - 1 ELSE 0]
  /\ UNCHANGED <<runs, labels, asked>>

Close(order) ==
  /\ order \in open /\ open' = open \ {order}
  /\ load' = [load EXCEPT ![order.label] = IF @ > 0 THEN @ - 1 ELSE 0]
  /\ UNCHANGED <<runs, labels, asked>>

ClusterInit ==
  /\ busy = {} /\ known = [v \in Viewers |-> {}]
  /\ root = [v \in Viewers |-> Alone]
  /\ todo = [v \in Viewers |-> {}] /\ joined = [v \in Viewers |-> {}]
  /\ labels = [a \in Assets |-> Unlabelled]
  /\ asked = {} /\ open = {} /\ load = [label \in Labels |-> 0]

ClusterNext ==
  \/ \E v \in Viewers :
       Recluster(v) \/ Label(v) \/ \E pair \in todo[v] : Compare(v, pair)
  \/ \E a \in Assets : Ask(a)
  \/ \E order \in asked : Open(order)
  \/ \E order \in open : Close(order)

ClusterSpec == ClusterInit /\ [][ClusterNext]_clusterVars

---------------------------------------------------------------------------
(* Properties. *)

ClusterTypeOK ==
  /\ busy \subseteq Viewers
  /\ known \in [Viewers -> SUBSET Assets]
  /\ root \in [Viewers -> [Assets -> Assets]]
  /\ todo \in [Viewers -> SUBSET Pairs] /\ joined \in [Viewers -> SUBSET Pairs]
  /\ labels \in [Assets -> Assets \cup {Unlabelled}]
  /\ asked \subseteq Order /\ open \subseteq Order /\ load \in [Labels -> Nat]

\* "cluster_id is the lexicographically smallest member" (clusters): a label
\* is an asset of its own cluster that no member precedes.
SmallestMember ==
  \A a \in Assets : labels[a] # Unlabelled =>
    labels[a] <= a /\ labels[labels[a]] = labels[a]

\* Two assets that a run found tied end it with one label, whatever else it
\* joined before and after.
TiedShareALabel ==
  \A v \in Viewers : \A pair \in joined[v] : root[v][pair[1]] = root[v][pair[2]]

\* The counter of a label is the number of orders open under it, and within
\* the cap, however the labels move while they are open.
CapPerLabel ==
  \A label \in Labels :
    /\ load[label] = Cardinality({order \in open : order.label = label})
    /\ load[label] <= Cap

\* README: "correlation-cluster caps".  No more than Cap orders open in one
\* cluster of today: TLC refutes it (README), orders asked before and after a
\* run, or between two, count under different labels.
CapPerCluster ==
  \A label \in Labels :
    Cardinality({order \in open : ClusterOf(order.asset) = label}) <= Cap

===========================================================================
