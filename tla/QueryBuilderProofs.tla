------------------------- MODULE QueryBuilderProofs -------------------------
(***************************************************************************)
(* Proofs about the query builders, for every set of columns and tables,   *)
(* every allowlist, and every number of calls and of values in a call.     *)
(*                                                                         *)
(* A builder only ever fills the lists of its own statement (Unused), so   *)
(* that what its Build validates is all that it writes; and what a loop    *)
(* over clauses renders binds each placeholder to its argument (Bound),    *)
(* by induction over the clauses (UpTo), from whatever number it starts.   *)
(***************************************************************************)
EXTENDS QueryBuilder, SequenceTheorems, NaturalsInduction,
        WellFoundedInduction, TLAPS

-----------------------------------------------------------------------------
(* The inductive invariant.                                                *)

(* What the lists of a builder hold.  A clause has as many marks as it has  *)
(* arguments, each meant for the argument at its place.                     *)
ColumnList == Seq(Column)
Clause == {c \in [condition : Seq(Value), args : Seq(Value)] :
             c.condition = c.args}
ClauseList == Seq(Clause)
Assignment == [column : Column, value : Nat \X Nat]
Assignments == Seq(Assignment)
Rows == Seq(Seq(Value))
Conflict == [columns : ColumnList, constraint : Table \cup {""}]

Builder ==
  [kind : Kind, table : Table, allowedColumns : {{}, Allowlist},
   columns : ColumnList, groupBy : ColumnList, orderBy : ColumnList,
   returning : ColumnList, joins : ClauseList, where : ClauseList,
   having : ClauseList, sets : Assignments, values : Rows,
   onConflict : Conflict, allowUnrestricted : BOOLEAN]

(* A builder has no method for the lists that its statement does not write. *)
Unused ==
  /\ b.kind # "select" => b.groupBy = <<>> /\ b.orderBy = <<>>
  /\ b.kind = "select" => b.returning = <<>>
  /\ b.kind \notin {"select", "insert"} => b.columns = <<>>
  /\ b.kind # "update" => b.sets = <<>>
  /\ b.kind # "insert" => b.onConflict = NoConflict

IInv ==
  /\ calls \in 0..MaxCalls
  /\ b \in Builder
  /\ Unused
  /\ b.kind = "insert" => b.columns \in BoundedSeq(Column, MaxArgs)

(* A builder starts with empty lists.                                       *)
LEMMA NewTypes ==
  ASSUME NEW kind \in Kind, NEW table \in Table,
         NEW allowed \in {{}, Allowlist}
  PROVE  New(kind, table, allowed) \in Builder
<1>1. /\ <<>> \in ColumnList /\ <<>> \in ClauseList
      /\ <<>> \in Assignments /\ <<>> \in Rows
  BY DEF ColumnList, ClauseList, Assignments, Rows
<1>2. NoConflict \in Conflict
  BY <1>1 DEF NoConflict, Conflict
<1> QED
  BY <1>1, <1>2 DEF New, Builder


(* A new builder satisfies the invariant.                                   *)
LEMMA InitIInv == Init => IInv
<1> SUFFICES ASSUME Init PROVE IInv
  OBVIOUS
<1>1. PICK kind \in Kind, table \in Table, allowed \in {{}, Allowlist} :
        b = New(kind, table, allowed)
  BY DEF Init
<1>2. b \in Builder
  BY <1>1, NewTypes
<1>3. calls \in 0..MaxCalls
  BY QueryConstants DEF Init
<1>4. Unused
  BY <1>1 DEF New, Unused
<1>5. <<>> \in BoundedSeq(Column, MaxArgs)
  <2>1. <<>> \in [1..0 -> Column]
    OBVIOUS
  <2>2. 0 \in 0..MaxArgs
    BY QueryConstants
  <2> QED
    BY <2>1, <2>2 DEF BoundedSeq, SeqOf
<1> QED
  BY <1>1, <1>2, <1>3, <1>4, <1>5 DEF IInv, New

(* What a call passes, and the clause it makes of it.                       *)
LEMMA ArgsTypes ==
  ASSUME IInv, calls < MaxCalls, NEW n \in 0..MaxArgs
  PROVE  Args(n) \in Seq(Value) /\ clause(Args(n)) \in Clause
<1>1. \A j \in 1..n : <<calls + 1, j>> \in Value
  BY QueryConstants DEF IInv, Value
<1>2. Args(n) \in Seq(Value)
  <2>1. n \in Nat /\ Args(n) \in [1..n -> Value]
    BY <1>1, QueryConstants DEF Args
  <2> QED
    BY <2>1
<1> QED
  BY <1>2 DEF clause, Clause

(* A call that gives a well-shaped builder of the same kind.                *)
LEMMA CallKeeps ==
  ASSUME IInv, NEW kinds, NEW x \in Builder, Call(kinds, x),
         x.kind = b.kind,
         x.kind # "select" => x.groupBy = b.groupBy /\ x.orderBy = b.orderBy,
         x.kind = "select" => x.returning = b.returning,
         x.kind # "select" => \/ x.columns = b.columns
                              \/ /\ b.kind = "insert"
                                 /\ x.columns \in BoundedSeq(Column, MaxArgs),
         x.kind # "update" => x.sets = b.sets,
         x.kind # "insert" => x.onConflict = b.onConflict
  PROVE  IInv'
<1>1. calls' \in 0..MaxCalls /\ b' = x
  BY QueryConstants DEF Call, IInv
<1>2. Unused'
  BY <1>1 DEF IInv, Unused
<1>3. b'.kind = "insert" => b'.columns \in BoundedSeq(Column, MaxArgs)
  BY <1>1 DEF IInv
<1> QED
  BY <1>1, <1>2, <1>3 DEF IInv

(* Adding a condition, a join or a HAVING.                                  *)
LEMMA ConditionKeeps ==
  ASSUME IInv, NEW n \in 0..MaxArgs,
         Where(n) \/ WhereIn(n) \/ Join(n) \/ Having(n)
  PROVE  IInv'
<1>1. b \in Builder /\ calls < MaxCalls
  BY DEF IInv, Where, WhereIn, Join, Having, Call
<1> DEFINE c == clause(Args(n))
           more(list) == Append(list, c)
<1>2. c \in Clause
  BY <1>1, ArgsTypes
<1> HIDE DEF c
<1>3. /\ more(b.where) \in ClauseList /\ more(b.joins) \in ClauseList
      /\ more(b.having) \in ClauseList
  BY <1>1, <1>2 DEF Builder, ClauseList
<1> HIDE DEF more
<1> DEFINE x == [b EXCEPT !.where = more(b.where)]
           y == [b EXCEPT !.joins = more(b.joins)]
           z == [b EXCEPT !.having = more(b.having)]
<1>4. x \in Builder /\ y \in Builder /\ z \in Builder
  BY <1>1, <1>3 DEF Builder
<1>5. \/ Call({"select", "update", "delete"}, x)
      \/ Call({"select", "update", "delete"}, b)
      \/ Call({"select"}, y) \/ Call({"select"}, z)
  BY DEF Where, WhereIn, Join, Having, more, c
<1>6. /\ x.kind = b.kind /\ x.groupBy = b.groupBy /\ x.orderBy = b.orderBy
      /\ x.returning = b.returning /\ x.columns = b.columns
      /\ x.sets = b.sets /\ x.onConflict = b.onConflict
  BY <1>1 DEF Builder
<1>7. /\ y.kind = b.kind /\ y.groupBy = b.groupBy /\ y.orderBy = b.orderBy
      /\ y.returning = b.returning /\ y.columns = b.columns
      /\ y.sets = b.sets /\ y.onConflict = b.onConflict
  BY <1>1 DEF Builder
<1>8. /\ z.kind = b.kind /\ z.groupBy = b.groupBy /\ z.orderBy = b.orderBy
      /\ z.returning = b.returning /\ z.columns = b.columns
      /\ z.sets = b.sets /\ z.onConflict = b.onConflict
  BY <1>1 DEF Builder
<1> HIDE DEF x, y, z
<1> QED
  BY <1>1, <1>4, <1>5, <1>6, <1>7, <1>8, CallKeeps

(* Adding a column to one of the lists.                                     *)
LEMMA ColumnKeeps ==
  ASSUME IInv, NEW c \in Column,
         SelectColumns(c) \/ GroupBy(c) \/ OrderBy(c) \/ Returning(c)
  PROVE  IInv'
<1> DEFINE w == [b EXCEPT !.columns = Append(b.columns, c)]
           x == [b EXCEPT !.groupBy = Append(b.groupBy, c)]
           y == [b EXCEPT !.orderBy = Append(b.orderBy, c)]
           z == [b EXCEPT !.returning = Append(b.returning, c)]
<1>1. b \in Builder
  BY DEF IInv
<1>2. \A list \in ColumnList : Append(list, c) \in ColumnList
  BY DEF ColumnList
<1>3. w \in Builder /\ x \in Builder /\ y \in Builder /\ z \in Builder
  BY <1>1, <1>2 DEF Builder
<1>4. \/ Call({"select"}, w) /\ b.kind = "select"
      \/ Call({"select"}, x) /\ b.kind = "select"
      \/ Call({"select"}, y) /\ b.kind = "select"
      \/ Call({"insert", "update", "delete"}, z) /\ b.kind # "select"
  BY DEF SelectColumns, GroupBy, OrderBy, Returning, Call
<1>5. w.kind = b.kind /\ w.returning = b.returning /\ w.sets = b.sets
      /\ w.onConflict = b.onConflict
  BY <1>1 DEF Builder
<1>6. x.kind = b.kind /\ x.returning = b.returning /\ x.sets = b.sets
      /\ x.onConflict = b.onConflict
  BY <1>1 DEF Builder
<1>7. y.kind = b.kind /\ y.returning = b.returning /\ y.sets = b.sets
      /\ y.onConflict = b.onConflict
  BY <1>1 DEF Builder
<1>8. z.kind = b.kind /\ z.groupBy = b.groupBy /\ z.orderBy = b.orderBy
      /\ z.columns = b.columns /\ z.sets = b.sets
      /\ z.onConflict = b.onConflict
  BY <1>1 DEF Builder
<1> HIDE DEF w, x, y, z
<1> QED
  BY <1>3, <1>4, <1>5, <1>6, <1>7, <1>8, CallKeeps

(* The methods of an INSERT.                                                *)
LEMMA InsertKeeps ==
  ASSUME IInv,
         \/ \E cs \in BoundedSeq(Column, MaxArgs) : InsertColumns(cs)
         \/ \E n \in 0..MaxArgs : Values(n)
         \/ \E cs \in BoundedSeq(Column, MaxArgs) : OnConflictDoNothing(cs)
         \/ \E k \in Table : OnConflictConstraintDoNothing(k)
  PROVE  IInv'
<1>1. b \in Builder
  BY DEF IInv
<1>2. ASSUME NEW cs \in BoundedSeq(Column, MaxArgs), InsertColumns(cs)
      PROVE  IInv'
  <2> DEFINE x == [b EXCEPT !.columns = cs]
  <2>1. cs \in ColumnList
    BY QueryConstants DEF BoundedSeq, SeqOf, ColumnList
  <2>2. x \in Builder /\ x.kind = b.kind /\ x.columns = cs
    BY <1>1, <2>1 DEF Builder
  <2>3. /\ x.groupBy = b.groupBy /\ x.orderBy = b.orderBy
        /\ x.sets = b.sets
    BY <1>1 DEF Builder
  <2>4. Call({"insert"}, x) /\ b.kind = "insert"
    BY <1>2 DEF InsertColumns, Call
  <2> HIDE DEF x
  <2> QED
    BY <2>2, <2>3, <2>4, CallKeeps
<1>3. ASSUME NEW n \in 0..MaxArgs, Values(n) PROVE IInv'
  <2> DEFINE x == [b EXCEPT !.values = Append(b.values, Args(n))]
  <2>1. Args(n) \in Seq(Value)
    BY <1>3, ArgsTypes DEF Values, Call
  <2>2. Append(b.values, Args(n)) \in Rows
    BY <1>1, <2>1 DEF Builder, Rows
  <2>3. x \in Builder /\ x.kind = b.kind /\ x.columns = b.columns
    BY <1>1, <2>2 DEF Builder
  <2>4. /\ x.groupBy = b.groupBy /\ x.orderBy = b.orderBy
        /\ x.sets = b.sets
    BY <1>1 DEF Builder
  <2>5. Call({"insert"}, x) /\ b.kind = "insert"
    BY <1>3 DEF Values, Call
  <2> HIDE DEF x
  <2> QED
    BY <2>3, <2>4, <2>5, CallKeeps
<1>4. ASSUME NEW f \in Conflict, Call({"insert"}, [b EXCEPT !.onConflict = f])
      PROVE  IInv'
  <2> DEFINE x == [b EXCEPT !.onConflict = f]
  <2>1. x \in Builder /\ x.kind = b.kind /\ x.columns = b.columns
    BY <1>1 DEF Builder
  <2>2. /\ x.groupBy = b.groupBy /\ x.orderBy = b.orderBy
        /\ x.sets = b.sets
    BY <1>1 DEF Builder
  <2>3. Call({"insert"}, x) /\ b.kind = "insert"
    BY <1>4 DEF Call
  <2> HIDE DEF x
  <2> QED
    BY <2>1, <2>2, <2>3, CallKeeps
<1>5. ASSUME NEW cs \in BoundedSeq(Column, MaxArgs), OnConflictDoNothing(cs)
      PROVE  IInv'
  <2> DEFINE f == [columns |-> cs, constraint |-> ""]
  <2>1. cs \in ColumnList
    BY QueryConstants DEF BoundedSeq, SeqOf, ColumnList
  <2>2. f \in Conflict
    BY <2>1 DEF Conflict
  <2> QED
    BY <1>4, <1>5, <2>2 DEF OnConflictDoNothing
<1>6. ASSUME NEW k \in Table, OnConflictConstraintDoNothing(k) PROVE IInv'
  <2> DEFINE f == [columns |-> <<>>, constraint |-> k]
  <2>1. <<>> \in ColumnList
    BY DEF ColumnList
  <2>2. f \in Conflict
    BY <2>1 DEF Conflict
  <2> QED
    BY <1>4, <1>6, <2>2 DEF OnConflictConstraintDoNothing
<1> QED
  BY <1>2, <1>3, <1>5, <1>6

(* The methods of an UPDATE, and AllowUnrestrictedDelete.                   *)
LEMMA AssignKeeps ==
  ASSUME IInv,
         \/ \E c \in Column : Set(c)
         \/ \E c, d \in Column : SetMap(c, d)
         \/ AllowUnrestrictedDelete
  PROVE  IInv'
<1>1. b \in Builder /\ calls + 1 \in Nat
  BY QueryConstants DEF IInv
<1>2. \A c \in Column : \A j \in 1..2 : setClause(c, j) \in Assignment
  BY <1>1 DEF setClause, Assignment
<1>3. ASSUME NEW l \in Assignments, Call({"update"}, [b EXCEPT !.sets = l])
      PROVE  IInv'
  <2> DEFINE x == [b EXCEPT !.sets = l]
  <2>1. x \in Builder /\ x.kind = b.kind /\ x.columns = b.columns
    BY <1>1 DEF Builder
  <2>2. /\ x.groupBy = b.groupBy /\ x.orderBy = b.orderBy
        /\ x.onConflict = b.onConflict
    BY <1>1 DEF Builder
  <2>3. Call({"update"}, x) /\ b.kind = "update"
    BY <1>3 DEF Call
  <2> HIDE DEF x
  <2> QED
    BY <2>1, <2>2, <2>3, CallKeeps
<1>4. ASSUME NEW c \in Column, Set(c) PROVE IInv'
  <2>1. Append(b.sets, setClause(c, 1)) \in Assignments
    BY <1>1, <1>2 DEF Builder, Assignments
  <2> QED
    BY <1>3, <1>4, <2>1 DEF Set
<1>5. ASSUME NEW c \in Column, NEW d \in Column, SetMap(c, d) PROVE IInv'
  <2> DEFINE s1 == setClause(c, 1)
             s2 == setClause(d, 2)
  <2>1. s1 \in Assignment /\ s2 \in Assignment
    BY <1>2
  <2> HIDE DEF s1, s2
  <2>2. b.sets \o <<s1, s2>> \in Assignments
    BY <1>1, <2>1 DEF Builder, Assignments
  <2> QED
    BY <1>3, <1>5, <2>2 DEF SetMap, s1, s2
<1>6. ASSUME AllowUnrestrictedDelete PROVE IInv'
  <2> DEFINE x == [b EXCEPT !.allowUnrestricted = TRUE]
  <2>1. x \in Builder /\ x.kind = b.kind /\ x.columns = b.columns
    BY <1>1 DEF Builder
  <2>2. /\ x.groupBy = b.groupBy /\ x.orderBy = b.orderBy
        /\ x.onConflict = b.onConflict /\ x.sets = b.sets
    BY <1>1 DEF Builder
  <2>3. Call({"delete"}, x) /\ b.kind = "delete"
    BY <1>6 DEF AllowUnrestrictedDelete, Call
  <2> HIDE DEF x
  <2> QED
    BY <2>1, <2>2, <2>3, CallKeeps
<1> QED
  BY <1>4, <1>5, <1>6

(* Every call of a method keeps the invariant.                              *)
LEMMA NextIInv == IInv /\ [Next]_vars => IInv'
<1> SUFFICES ASSUME IInv, [Next]_vars PROVE IInv'
  OBVIOUS
<1>1. CASE UNCHANGED vars
  BY <1>1 DEF vars, IInv, Unused
<1>2. CASE Next
  BY <1>2, ConditionKeeps, ColumnKeeps, InsertKeeps, AssignKeeps DEF Next
<1> QED
  BY <1>1, <1>2

(* The invariant holds after every sequence of calls.                       *)
LEMMA Invariance == Spec => []IInv
  BY InitIInv, NextIInv, PTL DEF Spec

(* Whatever the order of the methods, the lists of a builder hold what its  *)
(* methods append, and an INSERT has the columns of its last Columns call.  *)
THEOREM TypesKept == Spec => []TypeOK
<1>1. IInv => TypeOK
  <2> SUFFICES ASSUME IInv PROVE TypeOK
    OBVIOUS
  <2>1. b \in Builder
    BY DEF IInv
  <2>2. /\ ToSet(b.columns) \subseteq Column
        /\ ToSet(b.groupBy) \subseteq Column
        /\ ToSet(b.orderBy) \subseteq Column
        /\ ToSet(b.returning) \subseteq Column
    BY <2>1 DEF Builder, ColumnList, ToSet
  <2>3. SetColumns \subseteq Column
    <3>1. \A i \in DOMAIN b.sets : b.sets[i] \in Assignment
      BY <2>1 DEF Builder, Assignments
    <3>2. \A x \in ToSet(b.sets) : x \in Assignment
      BY <3>1 DEF ToSet
    <3>3. \A x \in Assignment : x.column \in Column
      BY DEF Assignment
    <3> QED
      BY <3>2, <3>3 DEF SetColumns
  <2>4. ASSUME NEW c \in Clauses PROVE ToSet(c.args) \subseteq Value
    <3>1. c \in Clause
      BY <2>1 DEF Clauses, Builder, ClauseList, ToSet
    <3> QED
      BY <3>1 DEF Clause, ToSet
  <2>5. \A row \in ToSet(b.values) : ToSet(row) \subseteq Value
    BY <2>1 DEF Builder, Rows, ToSet
  <2>6. b.kind \in Kind /\ b.table \in Table
    BY <2>1 DEF Builder
  <2> QED
    BY <2>2, <2>3, <2>4, <2>5, <2>6 DEF IInv, TypeOK
<1> QED
  BY <1>1, Invariance, PTL

-----------------------------------------------------------------------------
(* The allowlist.                                                          *)

(* What is checked against the allowlist is on it.                          *)
LEMMA CheckedAllowed ==
  ASSUME b.allowedColumns # {}, NEW cs, NEW exempt, EachValid(cs, exempt)
  PROVE  cs \subseteq b.allowedColumns \cup exempt
  BY DEF EachValid, validateColumnName

(* A list that a builder has no method for lists nothing.                   *)
LEMMA NothingListed ==
  ToSet(<<>>) = {} /\ ToSet(NoConflict.columns) = {} /\ Trimmed(<<>>) = {}
  BY DEF ToSet, NoConflict, Trimmed

(* A SELECT, INSERT or UPDATE whose builder has an allowlist lists only     *)
(* columns of it (and * or the empty name): validateSelect, validateInsert  *)
(* and validateUpdate check every list their builder has a method for.      *)
(* Conditions, and the RETURNING of a DELETE, are not among these lists.    *)
THEOREM AllowlistKept == Spec => []AllowlistHonoured
<1>1. IInv => AllowlistHonoured
  <2> SUFFICES ASSUME IInv, Valid, b.allowedColumns # {}, b.kind # "delete"
               PROVE  Listed \subseteq b.allowedColumns \cup {"*", ""}
    BY DEF AllowlistHonoured
  <2>1. b.kind \in {"select", "insert", "update", "delete"}
    BY QueryConstants DEF IInv, Builder
  <2>2. CASE b.kind = "select"
    <3>1. validateSelect
      BY <2>2 DEF Valid
    <3>2. /\ b.returning = <<>> /\ b.sets = <<>> /\ b.onConflict = NoConflict
      BY <2>2 DEF IInv, Unused
    <3>3. SetColumns = {}
      BY <3>2, NothingListed DEF SetColumns
    <3>4. /\ ToSet(b.columns) \subseteq b.allowedColumns \cup {"*"}
          /\ Trimmed(b.groupBy) \subseteq b.allowedColumns \cup {"", "*"}
          /\ Trimmed(b.orderBy) \subseteq b.allowedColumns \cup {"", "*"}
      BY <3>1, CheckedAllowed DEF validateSelect
    <3> QED
      BY <3>2, <3>3, <3>4, NothingListed DEF Listed
  <2>3. CASE b.kind = "insert"
    <3>1. validateInsert
      BY <2>3 DEF Valid
    <3>2. b.groupBy = <<>> /\ b.orderBy = <<>> /\ b.sets = <<>>
      BY <2>3 DEF IInv, Unused
    <3>3. SetColumns = {}
      BY <3>2, NothingListed DEF SetColumns
    <3>4. /\ ToSet(b.columns) \subseteq b.allowedColumns \cup {}
          /\ ToSet(b.returning) \subseteq b.allowedColumns \cup {"*"}
          /\ ToSet(b.onConflict.columns) \subseteq b.allowedColumns \cup {}
      BY <3>1, CheckedAllowed DEF validateInsert, validateOnConflict
    <3> QED
      BY <3>2, <3>3, <3>4, NothingListed DEF Listed
  <2>4. CASE b.kind = "update"
    <3>1. validateUpdate
      BY <2>4 DEF Valid
    <3>2. /\ b.groupBy = <<>> /\ b.orderBy = <<>> /\ b.columns = <<>>
          /\ b.onConflict = NoConflict
      BY <2>4 DEF IInv, Unused
    <3>3. /\ SetColumns \subseteq b.allowedColumns \cup {}
          /\ ToSet(b.returning) \subseteq b.allowedColumns \cup {}
      BY <3>1, CheckedAllowed DEF validateUpdate
    <3> QED
      BY <3>2, <3>3, NothingListed DEF Listed
  <2> QED
    BY <2>1, <2>2, <2>3, <2>4
<1> QED
  BY <1>1, Invariance, PTL

-----------------------------------------------------------------------------
(* Rendering.                                                              *)

(* Induction over the numbers up to m, for the provers: T holds the numbers *)
(* that have the property.                                                  *)
LEMMA UpTo ==
  ASSUME NEW m \in Nat, NEW T, 0 \in T,
         \A n \in 0..(m - 1) : n \in T => n + 1 \in T
  PROVE  0..m \subseteq T
<1> DEFINE R == OpToRel(<, Nat)
           Bad == (0..m) \ T
<1>1. SUFFICES ASSUME Bad # {} PROVE FALSE
  OBVIOUS
<1>2. IsWellFoundedOn(R, Nat)
  BY NatLessThanWellFounded
<1>3. Bad \subseteq Nat
  OBVIOUS
<1>4. PICK x \in Bad : \A y \in Bad : ~ (<<y, x>> \in R)
  <2> HIDE DEF R, Bad
  <2> QED
    BY <1>1, <1>2, <1>3, WFMin
<1>5. \A y \in Bad : ~ (y < x)
  <2> HIDE DEF Bad
  <2> QED
    BY <1>3, <1>4 DEF OpToRel
<1>6. x - 1 \in 0..(m - 1) /\ x - 1 < x
  OBVIOUS
<1>7. x - 1 \in T
  BY <1>5, <1>6
<1>8. (x - 1) + 1 \in T
  BY <1>6, <1>7
<1> QED
  BY <1>8

(* Whatever a call passes, a clause that has a mark for each argument, and  *)
(* a placeholder.                                                           *)
AnyValue == Nat \X Nat
Marked == {c \in [condition : Seq(AnyValue), args : Seq(AnyValue)] :
             c.condition = c.args}
Placeholder == [means : AnyValue, num : Nat]

(* A fragment that begins with placeholder a: the placeholders count up     *)
(* from a, one for each argument and each meant for it.                     *)
Bound(f, a) ==
  /\ f.text \in Seq(Placeholder) /\ f.args \in Seq(AnyValue)
  /\ Len(f.text) = Len(f.args)
  /\ f.next = a + Len(f.args)
  /\ \A i \in 1..Len(f.args) : /\ f.text[i].num = a + i - 1
                               /\ f.text[i].means = f.args[i]

(* The first n clauses of a list, rendered, are the first n - 1 and one     *)
(* more.                                                                    *)
LEMMA RenderSteps ==
  ASSUME NEW clauses \in Seq(Marked), NEW a
  PROVE  \E first : /\ buildConditionClauses(clauses, a) = first[Len(clauses)]
                    /\ first[0] = Fragment(a)
                    /\ \A n \in 1..Len(clauses) :
                         first[n] = Write(first[n - 1], clauses[n])
<1> DEFINE m == Len(clauses)
           Good(f, n) == /\ f = [k \in 0..n |-> f[k]]
                         /\ f[0] = Fragment(a)
                         /\ \A k \in 1..n : f[k] = Write(f[k - 1], clauses[k])
           T == {n \in 0..m : \E f : Good(f, n)}
<1>0. m \in Nat
  OBVIOUS
<1> HIDE DEF m
<1>1. 0 \in T
  <2> DEFINE f0 == [k \in 0..0 |-> Fragment(a)]
  <2>1. Good(f0, 0)
    OBVIOUS
  <2> HIDE DEF Good
  <2> QED
    BY <1>0, <2>1
<1>2. ASSUME NEW n \in 0..(m - 1), n \in T PROVE n + 1 \in T
  <2>1. PICK f : Good(f, n)
    BY <1>2
  <2> DEFINE e == Write(f[n], clauses[n + 1])
             g == [k \in 0..(n + 1) |-> IF k = n + 1 THEN e ELSE f[k]]
  <2>2. g = [k \in 0..(n + 1) |-> g[k]] /\ g[0] = Fragment(a)
    BY <1>0, <2>1
  <2>3. ASSUME NEW k \in 1..(n + 1) PROVE g[k] = Write(g[k - 1], clauses[k])
    <3>1. CASE k = n + 1
      BY <1>0, <3>1
    <3>2. CASE k # n + 1
      <4>1. k \in 1..n /\ g[k] = f[k] /\ g[k - 1] = f[k - 1]
        BY <1>0, <3>2
      <4> QED
        BY <2>1, <4>1
    <3> QED
      BY <3>1, <3>2
  <2>4. n + 1 \in 0..m
    BY <1>0
  <2> HIDE DEF g
  <2>5. Good(g, n + 1)
    BY <2>2, <2>3
  <2> HIDE DEF Good
  <2> QED
    BY <2>4, <2>5
<1>3. m \in T
  <2> HIDE DEF T
  <2>1. 0..m \subseteq T
    BY <1>0, <1>1, <1>2, UpTo
  <2> QED
    BY <1>0, <2>1
<1>4. PICK f : Good(f, m)
  BY <1>3
<1> DEFINE Rec(first) ==
             first = [n \in 0..m |-> IF n = 0 THEN Fragment(a)
                                     ELSE Write(first[n - 1], clauses[n])]
           first == CHOOSE first : Rec(first)
<1>5. Rec(f)
  <2>1. ASSUME NEW n \in 0..m
        PROVE  f[n] = IF n = 0 THEN Fragment(a)
                      ELSE Write(f[n - 1], clauses[n])
    <3>1. n = 0 \/ (n \in 1..m /\ n # 0)
      BY <1>0
    <3>2. f[0] = Fragment(a)
          /\ \A k \in 1..m : f[k] = Write(f[k - 1], clauses[k])
      BY <1>4
    <3> QED
      BY <3>1, <3>2
  <2>2. f = [k \in 0..m |-> f[k]]
    BY <1>4
  <2> QED
    BY <2>1, <2>2
<1>6. Rec(first)
  <2> HIDE DEF Rec
  <2> QED
    BY <1>5
<1>7. buildConditionClauses(clauses, a) = first[m]
  BY DEF buildConditionClauses, m
<1> HIDE DEF first
<1>8. first[0] = Fragment(a)
  BY <1>0, <1>6
<1>9. \A n \in 1..m : first[n] = Write(first[n - 1], clauses[n])
  BY <1>0, <1>6
<1> QED
  BY <1>7, <1>8, <1>9 DEF m

(* replacePlaceholders writes a placeholder for each mark.                  *)
LEMMA ReplacedBound ==
  ASSUME NEW c \in Marked, NEW a \in Nat \ {0}, NEW f,
         f = [text |-> replacePlaceholders(c.condition, a),
              args |-> c.args, next |-> a + Len(c.condition)]
  PROVE  Bound(f, a)
<1> DEFINE v == c.args
           t == replacePlaceholders(v, a)
<1>1. v \in Seq(AnyValue) /\ c.condition = v
  BY DEF Marked
<1> HIDE DEF v
<1>2. t = [j \in 1..Len(v) |-> [means |-> v[j], num |-> a + j - 1]]
  BY <1>1 DEF replacePlaceholders
<1>3. \A j \in 1..Len(v) : [means |-> v[j], num |-> a + j - 1] \in Placeholder
  BY <1>1 DEF Placeholder
<1>4. t \in Seq(Placeholder) /\ Len(t) = Len(v)
  BY <1>1, <1>2, <1>3
<1>5. \A j \in 1..Len(v) : t[j].num = a + j - 1 /\ t[j].means = v[j]
  BY <1>1, <1>2
<1>6. f.text = t /\ f.args = v /\ f.next = a + Len(v)
  BY <1>1 DEF v
<1> HIDE DEF t
<1> QED
  BY <1>1, <1>4, <1>5, <1>6, ZenonT(60) DEF Bound

(* Two fragments, the second of which begins where the first ends.          *)
LEMMA JoinedBound ==
  ASSUME NEW a \in Nat \ {0}, NEW f, NEW g, Bound(f, a), Bound(g, f.next)
  PROVE  Bound(Joined(f, g), a)
<1> DEFINE x == f.text
           y == g.text
           u == f.args
           v == g.args
<1>1. /\ x \in Seq(Placeholder) /\ y \in Seq(Placeholder)
      /\ u \in Seq(AnyValue) /\ v \in Seq(AnyValue)
      /\ Len(x) = Len(u) /\ Len(y) = Len(v)
      /\ f.next = a + Len(u) /\ g.next = f.next + Len(v)
  BY DEF Bound
<1>2. /\ \A i \in 1..Len(u) : x[i].num = a + i - 1 /\ x[i].means = u[i]
      /\ \A i \in 1..Len(v) : y[i].num = f.next + i - 1 /\ y[i].means = v[i]
  BY DEF Bound
<1>3. /\ Joined(f, g).text = x \o y /\ Joined(f, g).args = u \o v
      /\ Joined(f, g).next = g.next
  BY DEF Joined
<1> HIDE DEF x, y, u, v
<1>4. /\ x \o y \in Seq(Placeholder) /\ u \o v \in Seq(AnyValue)
      /\ Len(x \o y) = Len(x) + Len(y) /\ Len(u \o v) = Len(u) + Len(v)
  BY <1>1, ConcatProperties, ZenonT(60)
<1>5. g.next = a + Len(u \o v)
  BY <1>1, <1>4
<1>6. ASSUME NEW i \in 1..Len(u \o v)
      PROVE  /\ (x \o y)[i].num = a + i - 1
             /\ (x \o y)[i].means = (u \o v)[i]
  <2>1. CASE i <= Len(u)
    <3>1. (x \o y)[i] = x[i] /\ (u \o v)[i] = u[i] /\ i \in 1..Len(u)
      BY <1>1, <1>4, <2>1
    <3> QED
      BY <1>2, <3>1
  <2>2. CASE i > Len(u)
    <3> DEFINE k == i - Len(u)
    <3>1. k \in 1..Len(v) /\ i \in 1..(Len(u) + Len(v)) /\ ~ (i <= Len(u))
      BY <1>1, <1>4, <2>2
    <3>2. (x \o y)[i] = y[k] /\ (u \o v)[i] = v[k]
      BY <1>1, <3>1, ConcatProperties
    <3>3. f.next + k - 1 = a + i - 1
      BY <1>1
    <3> HIDE DEF k
    <3> QED
      BY <1>2, <3>1, <3>2, <3>3
  <2>3. i <= Len(u) \/ i > Len(u)
    BY <1>1, <1>4
  <2> QED
    BY <2>1, <2>2, <2>3
<1> QED
  BY <1>1, <1>3, <1>4, <1>5, <1>6 DEF Bound

(* No clause yet.                                                           *)
LEMMA FragmentBound == ASSUME NEW a \in Nat \ {0} PROVE Bound(Fragment(a), a)
<1>1. /\ Fragment(a).text = <<>> /\ Fragment(a).args = <<>>
      /\ Fragment(a).next = a
  BY DEF Fragment
<1>2. <<>> \in Seq(Placeholder) /\ <<>> \in Seq(AnyValue) /\ Len(<<>>) = 0
  OBVIOUS
<1> QED
  BY <1>1, <1>2 DEF Bound

(* One more clause.                                                         *)
LEMMA WriteBound ==
  ASSUME NEW a \in Nat \ {0}, NEW f, Bound(f, a), NEW c \in Marked
  PROVE  /\ Bound(Write(f, c), a)
         /\ Len(Write(f, c).args) = Len(f.args) + Len(c.args)
<1> DEFINE g == [text |-> replacePlaceholders(c.condition, f.next),
                 args |-> c.args, next |-> f.next + Len(c.condition)]
<1>1. /\ f.next \in Nat \ {0}
      /\ f.args \in Seq(AnyValue) /\ c.args \in Seq(AnyValue)
  BY DEF Bound, Marked
<1>2. Bound(g, f.next)
  BY <1>1, ReplacedBound
<1>3. Write(f, c) = Joined(f, g) /\ Write(f, c).args = f.args \o c.args
  BY DEF Write, Joined
<1> HIDE DEF g
<1> QED
  BY <1>1, <1>2, <1>3, JoinedBound

(* All clauses of a list.                                                   *)
LEMMA ClausesBound ==
  ASSUME NEW clauses \in Seq(Marked), NEW a \in Nat \ {0}
  PROVE  Bound(buildConditionClauses(clauses, a), a)
<1> DEFINE m == Len(clauses)
<1>1. PICK first : /\ buildConditionClauses(clauses, a) = first[m]
                   /\ first[0] = Fragment(a)
                   /\ \A n \in 1..m :
                        first[n] = Write(first[n - 1], clauses[n])
  BY RenderSteps
<1>2. m \in Nat /\ \A n \in 1..m : clauses[n] \in Marked
  OBVIOUS
<1> HIDE DEF m
<1> DEFINE T == {n \in 0..m : Bound(first[n], a)}
<1>3. 0 \in T
  BY <1>1, <1>2, FragmentBound
<1>4. ASSUME NEW n \in 0..(m - 1), n \in T PROVE n + 1 \in T
  <2>1. n + 1 \in 1..m /\ n + 1 \in 0..m /\ (n + 1) - 1 = n
    BY <1>2
  <2>2. first[n + 1] = Write(first[n], clauses[n + 1])
    BY <1>1, <2>1
  <2>3. Bound(first[n], a) /\ clauses[n + 1] \in Marked
    BY <1>2, <1>4, <2>1
  <2> QED
    BY <2>1, <2>2, <2>3, WriteBound, ZenonT(60)
<1> HIDE DEF T
<1>5. m \in T
  <2>1. 0..m \subseteq T
    BY <1>2, <1>3, <1>4, UpTo
  <2> QED
    BY <1>2, <2>1
<1> QED
  BY <1>1, <1>5 DEF T

(* Clauses with w arguments each give w for each clause.                    *)
LEMMA ClausesCounted ==
  ASSUME NEW clauses \in Seq(Marked), NEW a \in Nat \ {0}, NEW w \in Nat,
         \A i \in 1..Len(clauses) : Len(clauses[i].args) = w
  PROVE  Len(buildConditionClauses(clauses, a).args) = w * Len(clauses)
<1> DEFINE m == Len(clauses)
<1>1. PICK first : /\ buildConditionClauses(clauses, a) = first[m]
                   /\ first[0] = Fragment(a)
                   /\ \A n \in 1..m :
                        first[n] = Write(first[n - 1], clauses[n])
  BY RenderSteps
<1>2. m \in Nat /\ \A n \in 1..m : clauses[n] \in Marked
                                   /\ Len(clauses[n].args) = w
  OBVIOUS
<1> HIDE DEF m
<1> DEFINE T == {n \in 0..m : /\ Bound(first[n], a)
                              /\ Len(first[n].args) = w * n}
<1>3. 0 \in T
  <2>1. Len(Fragment(a).args) = w * 0
    BY DEF Fragment
  <2> QED
    BY <1>1, <1>2, <2>1, FragmentBound
<1>4. ASSUME NEW n \in 0..(m - 1), n \in T PROVE n + 1 \in T
  <2>1. n + 1 \in 1..m /\ n + 1 \in 0..m /\ (n + 1) - 1 = n
    BY <1>2
  <2>2. first[n + 1] = Write(first[n], clauses[n + 1])
    BY <1>1, <2>1
  <2>3. /\ Bound(first[n], a) /\ clauses[n + 1] \in Marked
        /\ Len(first[n].args) = w * n /\ Len(clauses[n + 1].args) = w
    BY <1>2, <1>4, <2>1
  <2>4. w * (n + 1) = w * n + w
    BY <1>2
  <2>5. Bound(Write(first[n], clauses[n + 1]), a)
        /\ Len(Write(first[n], clauses[n + 1]).args) = w * n + w
    BY <2>3, WriteBound
  <2> QED
    BY <2>1, <2>2, <2>4, <2>5
<1> HIDE DEF T
<1>5. m \in T
  <2>1. 0..m \subseteq T
    BY <1>2, <1>3, <1>4, UpTo
  <2> QED
    BY <1>2, <2>1
<1> QED
  BY <1>1, <1>5 DEF T, m

(* The lists of a builder are lists of such clauses.                        *)
LEMMA BuilderMarked ==
  ASSUME b \in Builder
  PROVE  /\ b.joins \in Seq(Marked) /\ b.where \in Seq(Marked)
         /\ b.having \in Seq(Marked)
         /\ [i \in DOMAIN b.sets |-> clause(<<b.sets[i].value>>)]
              \in Seq(Marked)
         /\ [i \in DOMAIN b.values |-> clause(b.values[i])] \in Seq(Marked)
<1>1. Value \subseteq AnyValue
  BY QueryConstants DEF Value, AnyValue
<1>2. \A v \in Seq(Value) : v \in Seq(AnyValue)
  BY <1>1, SeqMonotonic
<1>3. \A v \in Seq(AnyValue) : clause(v) \in Marked
  BY DEF clause, Marked
<1>4. Clause \subseteq Marked
  BY <1>2 DEF Clause, Marked
<1>5. \A list \in ClauseList : list \in Seq(Marked)
  BY <1>4, SeqMonotonic DEF ClauseList
<1>6. b.joins \in ClauseList /\ b.where \in ClauseList
      /\ b.having \in ClauseList /\ b.sets \in Assignments
      /\ b.values \in Rows
  BY DEF Builder
<1>7. [i \in DOMAIN b.sets |-> clause(<<b.sets[i].value>>)] \in Seq(Marked)
  <2> DEFINE s == b.sets
             t == [i \in DOMAIN s |-> clause(<<s[i].value>>)]
  <2>1. s \in Assignments
    BY <1>6
  <2> HIDE DEF s
  <2>2. Len(s) \in Nat /\ DOMAIN s = 1..Len(s)
    BY <2>1 DEF Assignments
  <2>3. ASSUME NEW i \in 1..Len(s) PROVE clause(<<s[i].value>>) \in Marked
    <3>1. s[i] \in Assignment
      BY <2>1 DEF Assignments
    <3>2. s[i].value \in AnyValue
      BY <3>1 DEF Assignment, AnyValue
    <3>3. <<s[i].value>> \in Seq(AnyValue)
      BY <3>2
    <3> QED
      BY <1>3, <3>3
  <2>4. t \in [1..Len(s) -> Marked]
    BY <2>2, <2>3
  <2> HIDE DEF t
  <2>5. t \in Seq(Marked)
    BY <2>2, <2>4
  <2> QED
    BY <2>5 DEF s, t
<1>8. [i \in DOMAIN b.values |-> clause(b.values[i])] \in Seq(Marked)
  <2> DEFINE s == b.values
             t == [i \in DOMAIN s |-> clause(s[i])]
  <2>1. s \in Rows
    BY <1>6
  <2> HIDE DEF s
  <2>2. Len(s) \in Nat /\ DOMAIN s = 1..Len(s)
    BY <2>1 DEF Rows
  <2>3. ASSUME NEW i \in 1..Len(s) PROVE clause(s[i]) \in Marked
    <3>1. s[i] \in Seq(Value)
      BY <2>1 DEF Rows
    <3> QED
      BY <1>2, <1>3, <3>1
  <2>4. t \in [1..Len(s) -> Marked]
    BY <2>2, <2>3
  <2> HIDE DEF t
  <2>5. t \in Seq(Marked)
    BY <2>2, <2>4
  <2> QED
    BY <2>5 DEF s, t
<1> QED
  BY <1>5, <1>6, <1>7, <1>8

(* Where a fragment ends another one can begin.                             *)
LEMMA BoundNext ==
  ASSUME NEW a \in Nat \ {0}, NEW f, Bound(f, a) PROVE f.next \in Nat \ {0}
  BY DEF Bound

(* What Build renders begins with placeholder 1.                            *)
LEMMA BuildBound ==
  ASSUME b \in Builder, b.kind \in {"select", "insert", "update", "delete"}
  PROVE  Bound(Build, 1)
<1>1. 1 \in Nat \ {0}
  OBVIOUS
<1>2. /\ \A a \in Nat \ {0} :
           /\ Bound(buildConditionClauses(b.joins, a), a)
           /\ Bound(buildConditionClauses(b.where, a), a)
           /\ Bound(buildConditionClauses(b.having, a), a)
           /\ Bound(buildSetClause(a), a)
      /\ Bound(buildValuesClause, 1)
  BY <1>1, BuilderMarked, ClausesBound DEF buildSetClause, buildValuesClause
<1>3. CASE b.kind = "select"
  <2> DEFINE j == buildConditionClauses(b.joins, 1)
             w == buildConditionClauses(b.where, j.next)
             h == buildConditionClauses(b.having, w.next)
  <2>1. Bound(j, 1) /\ j.next \in Nat \ {0}
    BY <1>1, <1>2, BoundNext
  <2>2. Bound(w, j.next) /\ w.next \in Nat \ {0}
    BY <1>2, <2>1, BoundNext
  <2>3. Bound(h, w.next)
    BY <1>2, <2>2
  <2>4. Build = Joined(Joined(j, w), h)
    BY <1>3 DEF Build, BuildSelect
  <2> HIDE DEF j, w, h
  <2>5. Bound(Joined(j, w), 1)
    BY <1>1, <2>1, <2>2, JoinedBound
  <2>6. Joined(j, w).next = w.next
    BY DEF Joined
  <2> QED
    BY <1>1, <2>3, <2>4, <2>5, <2>6, JoinedBound
<1>4. CASE b.kind = "insert"
  BY <1>2, <1>4 DEF Build
<1>5. CASE b.kind = "update"
  <2> DEFINE s == buildSetClause(1)
             w == buildConditionClauses(b.where, s.next)
  <2>1. Bound(s, 1) /\ s.next \in Nat \ {0}
    BY <1>1, <1>2, BoundNext
  <2>2. Bound(w, s.next)
    BY <1>2, <2>1
  <2>3. Build = Joined(s, w)
    BY <1>5 DEF Build, BuildUpdate
  <2> HIDE DEF s, w
  <2> QED
    BY <1>1, <2>1, <2>2, <2>3, JoinedBound
<1>6. CASE b.kind = "delete"
  BY <1>1, <1>2, <1>6 DEF Build
<1> QED
  BY <1>3, <1>4, <1>5, <1>6

(* The rows of a valid INSERT have a value for each column.                 *)
LEMMA InsertCounted ==
  ASSUME b \in Builder, b.kind = "insert", Valid
  PROVE  Len(Build.args) = Len(b.columns) * Len(b.values)
<1> DEFINE s == b.values
           w == Len(b.columns)
           t == [i \in DOMAIN s |-> clause(s[i])]
<1>1. Build = buildConditionClauses(t, 1) /\ t \in Seq(Marked)
  BY BuilderMarked DEF Build, buildValuesClause
<1>2. s \in Rows /\ b.columns \in ColumnList
  BY DEF Builder
<1>3. w \in Nat /\ Len(s) \in Nat /\ DOMAIN s = 1..Len(s)
  BY <1>2 DEF Rows, ColumnList
<1>4. \A i \in DOMAIN s : Len(s[i]) = w
  BY DEF Valid, validateInsert, validateInsertValues, ToSet
<1>5. Len(t) = Len(s) /\ \A i \in 1..Len(s) : t[i].args = s[i]
  BY <1>1, <1>3 DEF clause
<1> HIDE DEF s, w, t
<1>6. Len(buildConditionClauses(t, 1).args) = w * Len(t)
  <2>1. \A i \in 1..Len(t) : Len(t[i].args) = w
    BY <1>3, <1>4, <1>5
  <2>2. 1 \in Nat \ {0}
    OBVIOUS
  <2> QED
    BY <1>1, <1>3, <2>1, <2>2, ClausesCounted
<1> QED
  BY <1>1, <1>5, <1>6 DEF s, w

(* A statement that Build returns numbers its placeholders from 1 in the    *)
(* order they are written, for any number of clauses, rows and values, and  *)
(* binds each to the value its caller meant; an INSERT has a value for      *)
(* every column of every row.                                               *)
THEOREM StatementsBind == Spec => []PlaceholdersBind
<1>1. IInv => PlaceholdersBind
  <2> SUFFICES ASSUME IInv, Valid
               PROVE  /\ Len(Build.text) = Len(Build.args)
                      /\ \A i \in DOMAIN Build.text :
                           /\ Build.text[i].num = i
                           /\ Build.args[i] = Build.text[i].means
                      /\ b.kind = "insert" =>
                           Len(Build.args) = Len(b.columns) * Len(b.values)
    BY DEF PlaceholdersBind
  <2> DEFINE q == Build
  <2>1. b \in Builder /\ b.kind \in {"select", "insert", "update", "delete"}
    BY QueryConstants DEF IInv, Builder
  <2>2. Bound(q, 1)
    BY <2>1, BuildBound
  <2>3. b.kind = "insert" => Len(q.args) = Len(b.columns) * Len(b.values)
    BY <2>1, InsertCounted
  <2> HIDE DEF q
  <2>4. /\ Len(q.text) = Len(q.args) /\ DOMAIN q.text = 1..Len(q.args)
        /\ \A i \in 1..Len(q.args) : /\ q.text[i].num = i
                                     /\ q.args[i] = q.text[i].means
    <3>1. q.text \in Seq(Placeholder) /\ Len(q.text) = Len(q.args)
      BY <2>2 DEF Bound
    <3>2. \A i \in 1..Len(q.args) : /\ q.text[i].num = 1 + i - 1
                                    /\ q.args[i] = q.text[i].means
      BY <2>2 DEF Bound
    <3>3. \A i \in 1..Len(q.args) : 1 + i - 1 = i
      OBVIOUS
    <3> QED
      BY <3>1, <3>2, <3>3
  <2> QED
    BY <2>3, <2>4 DEF q
<1> QED
  BY <1>1, Invariance, PTL
=============================================================================
