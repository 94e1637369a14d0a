------------------------------- MODULE MCRules -------------------------------
(***************************************************************************)
(* The algorithms that involve one process only, for TLC: the chunkers,    *)
(* the workflow graph, the retry rules and the configuration. They share   *)
(* no state, so each behaviour exercises one of them.                      *)
(***************************************************************************)
EXTENDS Chunker, Sequences, FiniteSets

CONSTANTS
  Parts,    \* the algorithms to explore
  a, b, c, NodeLists, EndPoints, MaxEdges, x1, x2, x3, Assets, MaxAssets,
  Limits, Bases, Maxima, Defaults, MaxRuns, FirstNumbers, Unset,
  Environments, Others

VARIABLES
  part,
  input, nodes, edges, phase, adj, indegree, q, scan, order, read, verdict,
  row, defaults, first, runs, delays, fate,
  env, group, loaded, failed

SomeSpecs == [window : 0..4, overlap : 0..4, min : 0..5]

SomeNodeLists == {<<>>, <<a>>, <<a, b>>, <<a, a>>, <<a, b, c>>}

SomeLimits == {Unset, -1, 0, 1, 2}
SomeBases  == {Unset, 1, 5000}
SomeMaxima == {Unset, 3, 3000}

SomeDefaults == {[policy |-> [kind |-> "fixed", limit |-> 2, base |-> 7], max_attempts |-> 3]}

graphVars  == <<input, nodes, edges, phase, adj, indegree, q, scan, order, read, verdict>>
retryVars  == <<row, defaults, first, runs, delays, fate>>
configVars == <<env, group, loaded, failed>>

G == INSTANCE Dag

\* Keys of nodes and ends of edges are names of one kind.
ASSUME GraphAssumption ==
  NodeLists \subseteq Seq(EndPoints) /\ MaxEdges \in Nat /\ MaxAssets \in Nat

R == INSTANCE RetryRules

\* Stored limits are any i32, stored delays what a u64 can hold; attempts are numbered
\* from 1 by the rules and from 0 in the database.
ASSUME RetryAssumption ==
  /\ FirstNumbers \subseteq {0, 1}
  /\ Unset \notin Int /\ MaxRuns \in Nat
  /\ Limits \subseteq Int \cup {Unset}
  /\ Bases \cup Maxima \subseteq Nat \cup {Unset}
  /\ \A d \in Defaults :
       /\ d.max_attempts \in Nat
       /\ d.policy.kind \in {"never", "fixed", "exponential", "infinite_exponential"}
       /\ d.policy.kind \in {"fixed", "exponential"} => d.policy.limit \in Nat
       /\ d.policy.kind # "never" => d.policy.base \in Nat
       /\ d.policy.kind \in {"exponential", "infinite_exponential"} => d.policy.max \in Nat

C == INSTANCE Config

\* For the names of the variables, of which the value of Environments is made.
ConfigNames == INSTANCE Config WITH Environments <- {}

\* One variable of a setting is set, and one of a few others.
SomeEnvironments ==
  UNION {[{v, w} -> ConfigNames!ValueKinds] : v \in ConfigNames!AllVariables, w \in Others}

\* A process has finitely many variables.
ASSUME EnvironmentsAssumption == \A e \in Environments : IsFiniteSet(DOMAIN e)

\* The names that are put together of scope and key, and those of the fallbacks.
ASSUME NamesApart ==
  \A s, t \in C!Settings : s # t => C!Variables(s) \cap C!Variables(t) = {}

RulesInit ==
  /\ part \in Parts
  /\ part # "chunker" => /\ spec = [window |-> 1, overlap |-> 0, min |-> 0]
                         /\ impl = "text"
                         /\ tokens = [n \in Blocks |-> 0]
  /\ part # "graph" => input = [profile |-> "none", nodes |-> <<>>, edges |-> <<>>]
  /\ part # "retry" =>
       row = [retry_policy |-> "never", max_attempts |-> Unset, base |-> Unset, max |-> Unset]
  /\ part # "config" => env = "unread"
  /\ Init /\ G!Init /\ R!Init
  /\ IF part = "config" THEN C!Init ELSE group = 0 /\ loaded = <<>> /\ failed = "none"

RulesNext ==
  /\ UNCHANGED part
  /\ \/ part = "chunker" /\ Next /\ UNCHANGED <<graphVars, retryVars, configVars>>
     \/ part = "graph" /\ G!Next /\ UNCHANGED <<vars, retryVars, configVars>>
     \/ part = "retry" /\ R!Next /\ UNCHANGED <<vars, graphVars, configVars>>
     \/ part = "config" /\ C!Next /\ UNCHANGED <<vars, graphVars, retryVars>>

RulesSpec == RulesInit /\ [][RulesNext]_<<part, vars, graphVars, retryVars, configVars>>

\* See Dag.
OrderIsTopological == G!OrderIsTopological
ProfilesRunInStages == G!ProfilesRunInStages

\* See RetryRules.
RetriesBounded      == R!RetriesBounded
DelaysGrow          == R!DelaysGrow
BackoffAsDocumented == R!BackoffAsDocumented

\* See Config.
OneVariableOneSetting == part = "config" => C!OneVariableOneSetting
=============================================================================
