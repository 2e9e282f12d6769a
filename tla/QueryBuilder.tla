---------------------------- MODULE QueryBuilder ----------------------------
(***************************************************************************)
(* The fluent builders of postgres/query.go, insert.go, update.go and      *)
(* delete.go.  A builder is a value that its caller extends one method     *)
(* call at a time, in any order; Build then renders the clauses in the     *)
(* order of SQL, turns every ? of a condition into $1, $2, ... and returns *)
(* the text together with one flat list of arguments.                      *)
(*                                                                         *)
(* A condition is abstracted to its ? marks, each named by the value the   *)
(* caller means it for, and the rendered text to its placeholders in       *)
(* textual order.  A value is <<call, position>>: no two are equal, so a   *)
(* property can tell which one a placeholder is bound to.  Callers pass as *)
(* many arguments as their condition has marks.  The rest of a condition,  *)
(* and the column that WhereIn, WhereNotIn, WhereLike, WhereILike,         *)
(* WhereNull, WhereNotNull and WhereBetween write into it, is text of the  *)
(* caller: no builder checks it against anything, and it is left out, as   *)
(* the tables of joins are.  Keywords, AND and OR, DISTINCT, LIMIT, OFFSET *)
(* and the locking clause carry no argument and no column name, and are    *)
(* left out too.                                                           *)
(***************************************************************************)
EXTENDS Naturals, SequencesExt

CONSTANTS Kind,         \* the builders a caller may start with
          Table,        \* the table names a caller may give
          Column,       \* the column expressions a caller may give
          Identifier,   \* the names that match columnNameRegex
          TrimSpace,    \* TrimSpace[c]: c without the space around it
          Allowlist,    \* the columns of the ...WithAllowlist constructors
          MaxArgs,      \* bound: values of one call
          MaxCalls      \* bound: method calls on one builder

ASSUME QueryConstants ==
    /\ Kind \subseteq {"select", "insert", "update", "delete"}
    /\ DOMAIN TrimSpace = Column
    /\ MaxArgs \in Nat /\ MaxCalls \in Nat

VARIABLES b,            \* the builder
          calls         \* the number of method calls made on it

vars == <<b, calls>>

NoConflict == [columns |-> <<>>, constraint |-> ""]

New(kind, table, allowed) ==
    [kind |-> kind, table |-> table, allowedColumns |-> allowed,
     columns |-> <<>>, groupBy |-> <<>>, orderBy |-> <<>>, returning |-> <<>>,
     joins |-> <<>>, where |-> <<>>, having |-> <<>>,
     sets |-> <<>>, values |-> <<>>,
     onConflict |-> NoConflict, allowUnrestricted |-> FALSE]

Init == /\ calls = 0
        /\ \E kind \in Kind, table \in Table, allowed \in {{}, Allowlist} :
              b = New(kind, table, allowed)

(* The n values of the call being made, and a condition with a mark for    *)
(* each of its arguments.                                                  *)
Args(n) == [j \in 1..n |-> <<calls + 1, j>>]
clause(args) == [condition |-> args, args |-> args]

(***************************************************************************)
(* The methods.  One that takes several columns and appends them is the    *)
(* same as that many calls with one.                                       *)
(***************************************************************************)
Call(kinds, builder) ==
    /\ calls < MaxCalls
    /\ b.kind \in kinds
    /\ calls' = calls + 1
    /\ b' = builder

\* Where, OrWhere, WhereLike, WhereILike, WhereNull, WhereNotNull, WhereBetween
Where(n) == Call({"select", "update", "delete"},
                 [b EXCEPT !.where = Append(@, clause(Args(n)))])

\* WhereIn and WhereNotIn: a call with no value leaves the builder alone
WhereIn(n) == Call({"select", "update", "delete"},
                   IF n = 0 THEN b
                   ELSE [b EXCEPT !.where = Append(@, clause(Args(n)))])

\* Join, LeftJoin, RightJoin
Join(n) == Call({"select"}, [b EXCEPT !.joins = Append(@, clause(Args(n)))])

Having(n) == Call({"select"}, [b EXCEPT !.having = Append(@, clause(Args(n)))])

SelectColumns(c) == Call({"select"}, [b EXCEPT !.columns = Append(@, c)])

GroupBy(c) == Call({"select"}, [b EXCEPT !.groupBy = Append(@, c)])

\* OrderBy, OrderByAsc, OrderByDesc, and Page with a sort field
OrderBy(c) == Call({"select"}, [b EXCEPT !.orderBy = Append(@, c)])

Returning(c) == Call({"insert", "update", "delete"},
                     [b EXCEPT !.returning = Append(@, c)])

FaultyInsertColumns(cs) == Call({"insert"}, [b EXCEPT !.columns = @ \o cs])

\* Insert's Columns replaces the list, before or after the rows are given
InsertColumns(cs) == Call({"insert"}, [b EXCEPT !.columns = cs])

Values(n) == Call({"insert"}, [b EXCEPT !.values = Append(@, Args(n))])

OnConflictDoNothing(cs) ==
    Call({"insert"}, [b EXCEPT !.onConflict = [columns |-> cs, constraint |-> ""]])

OnConflictConstraintDoNothing(k) ==
    Call({"insert"}, [b EXCEPT !.onConflict = [columns |-> <<>>, constraint |-> k]])

setClause(c, j) == [column |-> c, value |-> <<calls + 1, j>>]

Set(c) == Call({"update"}, [b EXCEPT !.sets = Append(@, setClause(c, 1))])

\* SetMap ranges over a Go map: its columns are distinct, their order is not fixed
SetMap(c, d) == /\ c # d
                /\ Call({"update"}, [b EXCEPT !.sets = @ \o <<setClause(c, 1), setClause(d, 2)>>])

AllowUnrestrictedDelete == Call({"delete"}, [b EXCEPT !.allowUnrestricted = TRUE])

Next == \/ \E n \in 0..MaxArgs : Where(n) \/ WhereIn(n) \/ Join(n) \/ Having(n) \/ Values(n)
        \/ \E c \in Column : \/ SelectColumns(c) \/ GroupBy(c) \/ OrderBy(c)
                             \/ Returning(c) \/ Set(c)
        \/ \E cs \in BoundedSeq(Column, MaxArgs) :
              InsertColumns(cs) \/ OnConflictDoNothing(cs)
        \/ \E k \in Table : OnConflictConstraintDoNothing(k)
        \/ \E c, d \in Column : SetMap(c, d)
        \/ AllowUnrestrictedDelete

Spec == Init /\ [][Next]_vars

(***************************************************************************)
(* Validation.                                                             *)
(***************************************************************************)
validateTableName(table) == table \in Identifier

validateColumnName(c) ==
    /\ c # ""
    /\ b.allowedColumns # {} => c \in Identifier /\ c \in b.allowedColumns

(* Every column is one of the exempt ones or valid.                        *)
EachValid(columns, exempt) == \A c \in columns : c \in exempt \/ validateColumnName(c)

Trimmed(list) == {TrimSpace[c] : c \in ToSet(list)}

FaultyValidateSelect == /\ validateTableName(b.table)
                        /\ EachValid(ToSet(b.columns), {"*"})
                        /\ EachValid(Trimmed(b.orderBy), {"", "*"})

validateSelect == /\ validateTableName(b.table)
                  /\ EachValid(ToSet(b.columns), {"*"})
                  /\ EachValid(Trimmed(b.groupBy), {"", "*"})
                  /\ EachValid(Trimmed(b.orderBy), {"", "*"})

validateOnConflict ==
    /\ b.onConflict.constraint # "" => validateTableName(b.onConflict.constraint)
    /\ EachValid(ToSet(b.onConflict.columns), {})

validateInsertValues ==
    /\ b.values # <<>>
    /\ \A row \in ToSet(b.values) : Len(row) = Len(b.columns)

validateInsert == /\ validateTableName(b.table)
                  /\ b.columns # <<>> /\ EachValid(ToSet(b.columns), {})
                  /\ validateInsertValues
                  /\ EachValid(ToSet(b.returning), {"*"})
                  /\ validateOnConflict

SetColumns == {s.column : s \in ToSet(b.sets)}

validateUpdate == /\ validateTableName(b.table)
                  /\ b.sets # <<>>
                  /\ EachValid(SetColumns, {})
                  /\ EachValid(ToSet(b.returning), {})

validateDelete == /\ validateTableName(b.table)
                  /\ b.where # <<>> \/ b.allowUnrestricted

Valid == CASE b.kind = "select" -> validateSelect
           [] b.kind = "insert" -> validateInsert
           [] b.kind = "update" -> validateUpdate
           [] b.kind = "delete" -> validateDelete

(***************************************************************************)
(* Rendering.  A fragment is the placeholders written so far, the          *)
(* arguments collected so far, and the next placeholder's number.          *)
(***************************************************************************)
Fragment(argIndex) == [text |-> <<>>, args |-> <<>>, next |-> argIndex]

replacePlaceholders(condition, startIndex) ==
    [j \in DOMAIN condition |-> [means |-> condition[j], num |-> startIndex + j - 1]]

FaultyWrite(f, c) == [text |-> f.text \o replacePlaceholders(c.condition, f.next),
                      args |-> f.args \o c.args,
                      next |-> f.next]

(* One more clause: its marks numbered, its arguments added.               *)
Write(f, c) == [text |-> f.text \o replacePlaceholders(c.condition, f.next),
                args |-> f.args \o c.args,
                next |-> f.next + Len(c.condition)]

\* also buildJoinClauses, and the WHERE of UpdateBuilder and DeleteBuilder
buildConditionClauses(clauses, argIndex) ==
    LET first[n \in 0..Len(clauses)] ==   \* what the first n clauses give
          IF n = 0 THEN Fragment(argIndex) ELSE Write(first[n - 1], clauses[n])
    IN  first[Len(clauses)]

(* An assignment and a row number a placeholder for each value, as a       *)
(* condition does for each mark.                                           *)
buildSetClause(argIndex) ==
    buildConditionClauses([i \in DOMAIN b.sets |-> clause(<<b.sets[i].value>>)], argIndex)

buildValuesClause ==
    buildConditionClauses([i \in DOMAIN b.values |-> clause(b.values[i])], 1)

Joined(f, g) == [text |-> f.text \o g.text, args |-> f.args \o g.args, next |-> g.next]

BuildSelect == LET j == buildConditionClauses(b.joins, 1)
                   w == buildConditionClauses(b.where, j.next)
                   h == buildConditionClauses(b.having, w.next)
               IN  Joined(Joined(j, w), h)

BuildUpdate == LET s == buildSetClause(1)
                   w == buildConditionClauses(b.where, s.next)
               IN  Joined(s, w)

Build == CASE b.kind = "select" -> BuildSelect
           [] b.kind = "insert" -> buildValuesClause
           [] b.kind = "update" -> BuildUpdate
           [] b.kind = "delete" -> buildConditionClauses(b.where, 1)

(***************************************************************************)
(* Properties.                                                             *)
(***************************************************************************)
(* The shapes of the builder's fields, whatever order the methods are      *)
(* called in: rows and clauses are lists of lists of values, and the       *)
(* columns of an INSERT are those of a single Columns call.                *)
Value == (1..MaxCalls) \X (1..MaxArgs)
Clauses == ToSet(b.joins) \cup ToSet(b.where) \cup ToSet(b.having)
TypeOK ==
    /\ calls \in 0..MaxCalls
    /\ b.kind \in Kind /\ b.table \in Table
    /\ ToSet(b.columns) \cup ToSet(b.groupBy) \cup ToSet(b.orderBy)
          \cup ToSet(b.returning) \cup SetColumns \subseteq Column
    /\ \A c \in Clauses : ToSet(c.args) \subseteq Value
    /\ b.kind = "insert" => b.columns \in BoundedSeq(Column, MaxArgs)
    /\ \A row \in ToSet(b.values) : ToSet(row) \subseteq Value

(* Whatever the order in which a caller joins, filters, sets and adds      *)
(* rows, a statement that Build returns numbers its placeholders 1, 2, ... *)
(* in the order they are written, has exactly one argument for each, and   *)
(* every placeholder is bound to the value the caller meant for it; an     *)
(* INSERT has one value for every column of every row.                     *)
PlaceholdersBind ==
    Valid => LET q == Build
             IN  /\ Len(q.text) = Len(q.args)
                 /\ \A i \in DOMAIN q.text : /\ q.text[i].num = i
                                             /\ q.args[i] = q.text[i].means
                 /\ b.kind = "insert" => Len(q.args) = Len(b.columns) * Len(b.values)

(* The columns a builder writes into its own column lists; space around    *)
(* those of GROUP BY and ORDER BY does not matter.                         *)
Listed == ToSet(b.columns) \cup Trimmed(b.groupBy) \cup Trimmed(b.orderBy)
             \cup ToSet(b.returning) \cup SetColumns \cup ToSet(b.onConflict.columns)

(* A SELECT, INSERT or UPDATE made by a ...WithAllowlist constructor that  *)
(* Build returns lists only columns of the allowlist, besides the exempt * *)
(* and "", whichever method put them there.  (DeleteBuilder writes its     *)
(* RETURNING list unchecked, and no builder checks a column inside a       *)
(* condition.)                                                             *)
AllowlistHonoured ==
    Valid /\ b.allowedColumns # {} /\ b.kind # "delete"
       => Listed \subseteq b.allowedColumns \cup {"*", ""}
=============================================================================
