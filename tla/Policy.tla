------------------------------- MODULE Policy -------------------------------
(***************************************************************************)
(* The rules engine, without state: permissions (packages/core/src/         *)
(* permissions.ts), the policy evaluator and its two readings of a          *)
(* condition, as SQL and against a proposed row (policy.ts), the query      *)
(* grammar (query-dsl.ts) and the compiler that splices the policy into the *)
(* statement (query-compiler.ts), with the three-valued WHERE of the        *)
(* databases that run it.                                                   *)
(*                                                                         *)
(* A condition is what the dashboard's form can write: `always`, `never`, or *)
(* one to three comparisons ANDed.  It is kept as a sequence of alternatives, *)
(* each a sequence of comparisons that must all hold, so that `or`, `and` and *)
(* `negate` stay in one shape.                                              *)
(***************************************************************************)
EXTENDS Integers, Sequences, FiniteSets

CONSTANTS Null    \* the null of a column or of an attribute

Actions == {"select", "insert", "update", "delete"}
Dialects == {"postgres", "libsql"}

-----------------------------------------------------------------------------
(* permissions.ts: a permission is [deny, resource, action] *)

permissionMatches(p, resource, verb) ==
    p.resource \in {"*", resource} /\ p.action \in {"*", verb}

hasPermission(granted, resource, verb) ==
    /\ \A p \in granted : p.deny => ~permissionMatches(p, resource, verb)
    /\ \E p \in granted : ~p.deny /\ permissionMatches(p, resource, verb)

ACTION_TO_PERMISSION ==
    [select |-> "read", insert |-> "create", update |-> "write", delete |-> "delete"]

May(resource, verb) == [deny |-> FALSE, resource |-> resource, action |-> verb]
MayNot(resource, verb) == [deny |-> TRUE, resource |-> resource, action |-> verb]

SYSTEM_ROLES ==
    [owner |-> {May("*", "*")},
     admin |-> {May("*", v) : v \in {"read", "write", "create", "delete"}},
     member |-> {May("*", "read")},
     viewer |-> {May("*", "read"), MayNot("*", "delete")}]

-----------------------------------------------------------------------------
(* policy.ts: conditions and the decision *)

Always == << <<>> >>
Never == << >>

Opposite ==
    [eq |-> "neq", neq |-> "eq", lt |-> "gte", gte |-> "lt", gt |-> "lte", lte |-> "gt",
     is_null |-> "is_not_null", is_not_null |-> "is_null"]

Comparisons == DOMAIN Opposite \ {"is_null", "is_not_null"}

\* Mutant: the clauses of an `and` are negated and still ANDed.
negateKeepingAnd(c) ==
    IF c = Never THEN Always
    ELSE << [k \in DOMAIN c[1] |-> [c[1][k] EXCEPT !.op = Opposite[@]]] >>

negate(c) ==
    IF c = Never THEN Always
    ELSE [k \in DOMAIN c[1] |-> << [c[1][k] EXCEPT !.op = Opposite[@]] >>]

relevant(p, resource, action) ==
    p.enabled /\ p.action = action /\ p.resource \in {"*", resource}

\* By priority, then by id.
RunsBefore(p, q) == p.priority < q.priority \/ (p.priority = q.priority /\ p.id < q.id)
InOrder(S) ==
    CHOOSE q \in [1..Cardinality(S) -> S] :
        \A i, j \in 1..Cardinality(S) : i < j => RunsBefore(q[i], q[j])

Alternatives(allows) ==
    LET from[i \in 0..Len(allows)] ==
            IF i = 0 THEN <<>> ELSE from[i - 1] \o allows[i].condition
    IN from[Len(allows)]

Refusal(reason) == [effect |-> "deny", reason |-> reason, conditions |-> <<>>]

decide(policies, resource, action) ==
    LET applicable == InOrder({p \in policies : relevant(p, resource, action)})
        denies == SelectSeq(applicable, LAMBDA p : p.effect = "deny")
        allows == SelectSeq(applicable, LAMBDA p : p.effect = "allow" /\ p.condition # Never)
        unconditional == \E i \in DOMAIN denies : denies[i].condition = Always
        granted == IF Len(allows) = 1 /\ allows[1].condition = Always
                   THEN <<>> ELSE <<Alternatives(allows)>>
    IN  IF unconditional THEN Refusal("explicit_deny")
        ELSE IF allows = <<>> THEN Refusal("default_deny")
        ELSE [effect |-> "allow", reason |-> "allow",
              conditions |-> granted \o [i \in DOMAIN denies |-> negate(denies[i].condition)]]

\* What the dashboard's form can write (actions/access.ts).
buildCondition(c) ==
    \/ c \in {Always, Never}
    \/ /\ Len(c) = 1 /\ Len(c[1]) \in 1..3
       /\ \A k \in DOMAIN c[1] : c[1][k].op \in DOMAIN Opposite

resolveAttribute(ref, subject) ==
    CASE ref.from = "literal" -> ref.value
      [] ref.from = "id" -> subject.id
      [] ref.from = "workspace_id" -> subject.workspace

Compare(op, a, b) ==
    CASE op = "eq" -> a = b [] op = "neq" -> a # b
      [] op = "lt" -> a < b [] op = "lte" -> a <= b
      [] op = "gt" -> a > b [] op = "gte" -> a >= b

-----------------------------------------------------------------------------
(* evaluateConditionForRow: the row of an insert, which sets some columns *)

TrueOfRow(leaf, subject, row) ==
    LET v == resolveAttribute(leaf.ref, subject)
        a == row[leaf.field]
    IN CASE leaf.op = "is_null" -> a = Null
         [] leaf.op = "is_not_null" -> a # Null
         [] leaf.op \in {"eq", "neq"} -> Compare(leaf.op, a, v)
         [] OTHER -> a # Null /\ v # Null /\ Compare(leaf.op, a, v)

Fields(conditions) ==
    UNION {UNION {{conditions[i][j][k].field : k \in DOMAIN conditions[i][j]} :
                      j \in DOMAIN conditions[i]} : i \in DOMAIN conditions}

\* Satisfied, with nothing undecidable.
evaluateDecisionForRow(conditions, subject, row) ==
    /\ Fields(conditions) \subseteq DOMAIN row
    /\ \A i \in DOMAIN conditions : \E j \in DOMAIN conditions[i] : \A k \in DOMAIN conditions[i][j] :
           TrueOfRow(conditions[i][j][k], subject, row)

-----------------------------------------------------------------------------
(* parseQuerySpec: a query that the grammar accepts *)

\* A filter compares a column with a scalar the caller sent, never with an
\* attribute, and a null test takes no value.
parseFilter(f) ==
    /\ f.op \in DOMAIN Opposite /\ f.ref.from = "literal"
    /\ f.op \notin Comparisons => f.ref.value = Null

parseQuerySpec(spec) ==
    /\ \A i \in DOMAIN spec.filters : parseFilter(spec.filters[i])
    /\ spec.action = "insert" =>
           /\ spec.values # <<>> /\ spec.filters = <<>>
           /\ \A i \in DOMAIN spec.values : DOMAIN spec.values[i] = DOMAIN spec.values[1]
    /\ spec.action = "update" => Len(spec.values) = 1 /\ spec.filters # <<>>
    /\ spec.action = "delete" => spec.values = <<>> /\ spec.filters # <<>>
    /\ spec.action = "select" => spec.values = <<>>
    /\ \A i \in DOMAIN spec.values : DOMAIN spec.values[i] # {}

-----------------------------------------------------------------------------
(* Compiling: a WHERE is a sequence of conditions, all of which must hold.  *)
(* A term that compares carries the number of its placeholder.              *)

Places(where) ==
    UNION {UNION {{<<i, j, k>> : k \in DOMAIN where[i][j]} : j \in DOMAIN where[i]} : i \in DOMAIN where}

At(where, p) == where[p[1]][p[2]][p[3]]

Before(p, q) ==
    \/ p[1] < q[1]
    \/ p[1] = q[1] /\ p[2] < q[2]
    \/ p[1] = q[1] /\ p[2] = q[2] /\ p[3] < q[3]

Binds(leaf, subject) == leaf.op \in Comparisons /\ resolveAttribute(leaf.ref, subject) # Null

\* Placeholders handed out before p, those of the whole fragment, its parameters.
Bound(where, subject, p) ==
    Cardinality({q \in Places(where) : Before(q, p) /\ Binds(At(where, q), subject)})
BoundIn(where, subject) == Cardinality({q \in Places(where) : Binds(At(where, q), subject)})
Parameters(where, subject) ==
    [n \in 1..BoundIn(where, subject) |->
        LET p == CHOOSE q \in Places(where) :
                     Binds(At(where, q), subject) /\ Bound(where, subject, q) = n - 1
        IN resolveAttribute(At(where, p).ref, subject)]

\* A null comparison is IS NULL for eq and IS NOT NULL for every other operator.
Term(leaf, subject, mark) ==
    IF leaf.op \notin Comparisons THEN [field |-> leaf.field, op |-> leaf.op, mark |-> 0]
    ELSE IF Binds(leaf, subject) THEN [field |-> leaf.field, op |-> leaf.op, mark |-> mark]
    ELSE [field |-> leaf.field, mark |-> 0,
          op |-> IF leaf.op = "eq" THEN "is_null" ELSE "is_not_null"]

compileCondition(where, subject, startIndex) ==
    [i \in DOMAIN where |-> [j \in DOMAIN where[i] |-> [k \in DOMAIN where[i][j] |->
        Term(where[i][j][k], subject, startIndex + Bound(where, subject, <<i, j, k>>))]]]

SeqOfColumns(row) == CHOOSE q \in [1..Cardinality(DOMAIN row) -> DOMAIN row] :
                         {q[i] : i \in DOMAIN q} = DOMAIN row

\* Mutant: the policy is compiled as if no parameter preceded it.
compileAtOne(spec, conditions, subject) ==
    LET columns == IF spec.action = "update" THEN SeqOfColumns(spec.values[1]) ELSE <<>>
        filters == [i \in DOMAIN spec.filters |-> << <<spec.filters[i]>> >>]
    IN [set |-> columns,
        where |-> compileCondition(conditions \o filters, subject, 1),
        params |-> [i \in DOMAIN columns |-> spec.values[1][columns[i]]]
                       \o Parameters(conditions \o filters, subject)]

\* select, update and delete: SET is bound before WHERE, the policy before the filters.
compileQuerySpec(spec, conditions, subject) ==
    LET columns == IF spec.action = "update" THEN SeqOfColumns(spec.values[1]) ELSE <<>>
        filters == [i \in DOMAIN spec.filters |-> << <<spec.filters[i]>> >>]
        first == Len(columns) + 1
    IN [set |-> columns,
        where |-> compileCondition(conditions, subject, first)
                      \o compileCondition(filters, subject, first + BoundIn(conditions, subject)),
        params |-> [i \in DOMAIN columns |-> spec.values[1][columns[i]]]
                       \o Parameters(conditions, subject) \o Parameters(filters, subject)]

-----------------------------------------------------------------------------
(* The database: three truth values, and a row is taken when WHERE is true. *)
(* postgres reads a placeholder by its number, libsql by its place in the   *)
(* text.                                                                   *)

Conjunction(S) == IF "false" \in S THEN "false" ELSE IF "null" \in S THEN "null" ELSE "true"
Disjunction(S) == IF "true" \in S THEN "true" ELSE IF "null" \in S THEN "null" ELSE "false"
Truth(b) == IF b THEN "true" ELSE "false"

ParameterAt(stmt, dialect, p) ==
    IF dialect = "postgres" THEN stmt.params[At(stmt.where, p).mark]
    ELSE stmt.params[Len(stmt.set) + 1 +
             Cardinality({q \in Places(stmt.where) : Before(q, p) /\ At(stmt.where, q).mark # 0})]

TermTruth(stmt, dialect, p, row) ==
    LET t == At(stmt.where, p) IN
    CASE t.op = "is_null" -> Truth(row[t.field] = Null)
      [] t.op = "is_not_null" -> Truth(row[t.field] # Null)
      [] OTHER -> IF row[t.field] = Null THEN "null"
                  ELSE Truth(Compare(t.op, row[t.field], ParameterAt(stmt, dialect, p)))

Selects(stmt, dialect, row) ==
    "true" = Conjunction({Disjunction({Conjunction({TermTruth(stmt, dialect, <<i, j, k>>, row) :
                 k \in DOMAIN stmt.where[i][j]}) : j \in DOMAIN stmt.where[i]}) : i \in DOMAIN stmt.where})
=============================================================================
