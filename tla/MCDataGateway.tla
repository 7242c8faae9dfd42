---------------------------- MODULE MCDataGateway ----------------------------
(* Small instances of DataGateway for TLC. *)
EXTENDS DataGateway, TLC

Literal(v) == [from |-> "literal", value |-> v]
Of(path) == [from |-> path]
None == Literal(Null)
Leaf(field, op, ref) == [field |-> field, op |-> op, ref |-> ref]
Mine == Leaf("owner", "eq", Of("id"))

Draft(resource, action, effect, priority, condition) ==
    [resource |-> resource, action |-> action, effect |-> effect, priority |-> priority, condition |-> condition]

SmallDrafts == <<
    Draft("notes", "select", "allow", 1, << <<Mine>> >>),
    Draft("notes", "select", "allow", 0, << <<Leaf("rank", "lte", Literal(1)), Leaf("owner", "neq", Literal(2))>> >>),
    Draft("*", "select", "deny", 1, << <<Leaf("rank", "eq", Of("workspace_id")), Leaf("owner", "neq", Of("id"))>> >>),
    Draft("notes", "select", "deny", 0, << <<Leaf("rank", "is_null", None), Leaf("owner", "is_not_null", None)>> >>),
    Draft("*", "select", "deny", 1, Always),
    Draft("notes", "select", "allow", 1, Never),
    Draft("notes", "update", "allow", 1, << <<Mine>> >>),
    Draft("notes", "update", "deny", 1, << <<Leaf("rank", "lt", Literal(1)), Leaf("owner", "eq", Literal(1))>> >>),
    Draft("notes", "delete", "allow", 1, Always),
    Draft("notes", "delete", "deny", 2, << <<Leaf("rank", "gte", Literal(1))>> >>),
    Draft("notes", "insert", "allow", 1, << <<Mine>> >>),
    Draft("*", "insert", "deny", 1, << <<Leaf("rank", "gt", Literal(1))>> >>),
    Draft("*", "delete", "allow", 1, Always) >>

SmallStarts ==
    {{}, {1}, {2}, {1, 2}, {1, 3}, {2, 4}, {1, 5}, {3, 6}, {1, 2, 3}, {1, 2, 4},
     {7}, {7, 8}, {9}, {9, 10}, {11}, {11, 12}}

SmallRoles == [r \in {"member", "admin", "viewer"} |-> SYSTEM_ROLES[r]]

Row(o, r) == [owner |-> o, rank |-> r]
SmallTables ==
    {<<Row(1, 0), Row(1, 1), Row(2, 0), Row(2, 1), Row(Null, 1), Row(1, Null), Row(2, 2), Absent, Absent>>}

Spec1(action, filters, values) == [resource |-> "notes", action |-> action, filters |-> filters, values |-> values]
Person(workspace, scopes, spec) ==
    [subject |-> 1, kind |-> "user", workspace |-> workspace, scopes |-> scopes, spec |-> spec]
Machine(scopes, spec) ==
    [subject |-> 2, kind |-> "service_account", workspace |-> Null, scopes |-> scopes, spec |-> spec]
Reads == {"db:read"}
Writes == {"db:read", "db:write"}

SmallRequests == {
    Person(1, Reads, Spec1("select", <<Mine>>, <<>>)),   \* refused: a filter takes values
    Person(1, Reads, Spec1("select", <<>>, <<>>)),
    Person(Null, Reads, Spec1("select", <<Leaf("rank", "gte", Literal(1)), Leaf("owner", "neq", Literal(2))>>, <<>>)),
    Machine({"admin"}, Spec1("select", <<Leaf("owner", "eq", Literal(1))>>, <<>>)),
    Person(1, Writes, Spec1("update", <<Leaf("rank", "lte", Literal(1))>>, <<[owner |-> 2, rank |-> 2]>>)),
    Person(1, {"admin"}, Spec1("update", <<Leaf("rank", "lte", Literal(1))>>, <<[rank |-> 2]>>)),
    Person(1, Writes, Spec1("delete", <<Leaf("owner", "eq", Literal(1))>>, <<>>)),
    Machine(Writes, Spec1("delete", <<>>, <<>>)),
    Person(1, Writes, Spec1("insert", <<>>, <<[owner |-> 1, rank |-> 1], [owner |-> 1, rank |-> 2]>>)),
    Person(1, Writes, Spec1("insert", <<>>, <<[owner |-> 1, rank |-> 0]>>)),
    Person(1, Writes, Spec1("insert", <<>>, <<[owner |-> 1], [rank |-> 0]>>)),
    Machine(Writes, Spec1("insert", <<>>, <<[rank |-> 0]>>)) }

\* Every request against every set of policies and one edit; one request while
\* people come and go.
SmallScenes == {
    [edits |-> 1, moves |-> 0, starts |-> SmallStarts, requests |-> SmallRequests],
    [edits |-> 0, moves |-> 3, starts |-> {{1}}, requests |-> {Person(1, Reads, Spec1("select", <<>>, <<>>))}]}

Symmetry == Permutations(Handlers)
=============================================================================
