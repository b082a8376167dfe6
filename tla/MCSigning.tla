----------------------------- MODULE MCSigning ------------------------------
(***************************************************************************)
(* An instance of Signing for TLC: two roles, one of whose names is a part *)
(* of the other, and lengths around those at which a buffer is full.       *)
(***************************************************************************)
EXTENDS Signing

TwoRoles == {"reader", "reader-admin"}
NameInArn == {<<r, r>> : r \in TwoRoles} \cup {<<"reader", "reader-admin">>}

\* The longest path that is accepted without a query is 990.
ShortAndLimit == {1, 989, 990, 991}

\* Continuations and filters at which some list or role request is full.
ShortAndFull == {40, 958, 959, 982, 983}

\* A long key as the source.
LongSource == {800}

\* The longest token that fits beside a source of that length, and the longest that
\* parse_assume_role_response() takes.
LongTokens == {948, 2047}

BothProtocols == {1, 2}
=============================================================================
