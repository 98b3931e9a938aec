-------------------------- MODULE QueryResultsProofs --------------------------
(***************************************************************************)
(* What is proved of QueryResults for any number of result objects, result *)
(* sets and rows, and any answers of the server: its types, that a result  *)
(* set is freed with its last object, and its three action properties.     *)
(***************************************************************************)
EXTENDS QueryResults, FiniteSetTheorems, SequenceTheorems, TLAPS

Session == [status : {"ready", "result", "use"}, rows : Nat, left : Seq(AnswerParts),
            errnum : Errors, up : BOOLEAN]
ResultSets == [refs : Nat, rows : Nat, taken : Nat, open : BOOLEAN]
ResultObjects == [class : {"none", "store", "use"}, handle : Handles \cup {None},
                  good : BOOLEAN]

(* An address without references is free, an object not yet born refers to *)
(* none.                                                                   *)
FreeInv ==
  /\ \A h \in Handles : res[h].refs = 0 => res[h] = Free
  /\ \A o \in Objects : obj[o].class = "none" => obj[o].handle = None

(* References are counted, and only UseQueryResult objects share them.     *)
CountInv ==
  \A h \in Handles :
    /\ res[h].refs = Cardinality(Holders(h))
    /\ \A o, e \in Holders(h) : o # e => obj[o].class = "use"

(* At most one result set is open, and exactly while the session reads it. *)
OpenInv ==
  /\ session.status = "use" <=> \E h \in Handles : res[h].open
  /\ \A h, g \in Handles : res[h].open /\ res[g].open => h = g

IInv == TypeOK /\ session \in Session /\ FreeInv /\ CountInv /\ OpenInv

-----------------------------------------------------------------------------
(* The C API's side                                                        *)

LEMMA HeadTail ==
  ASSUME NEW answer \in Seq(AnswerParts), answer # <<>>
  PROVE  Head(answer) \in AnswerParts /\ Tail(answer) \in Seq(AnswerParts)
BY HeadTailProperties

LEMMA PartFacts ==
  ASSUME NEW part \in AnswerParts
  PROVE  /\ part.rows \in Nat
         /\ part = Refusal => part.kind # "rows"
BY DEF AnswerParts, Refusal

LEMMA FailedFacts ==
  ASSUME NEW s \in Session, NEW error \in Errors
  PROVE  Failed(s, error) \in Session /\ Failed(s, error).status = s.status
         /\ (Ok(Failed(s, error)) <=> error = "none")
BY DEF Failed, Session, Ok

LEMMA LostFacts ==
  ASSUME NEW s \in Session
  PROVE  /\ Lost(s) \in Session /\ Lost(s).status = "ready" /\ ~Ok(Lost(s))
         /\ Flushed(s) \in Session /\ Flushed(s).status = "ready"
         /\ UseResult(s) \in Session /\ UseResult(s).status = "use"
         /\ Ok(UseResult(s)) <=> Ok(s)
<1>1. <<>> \in Seq(AnswerParts)
  BY EmptySeq
<1> QED BY <1>1 DEF Lost, Flushed, UseResult, Session, Ok, Errors

LEMMA AnsweredFacts ==
  ASSUME NEW s \in Session, NEW answer \in Seq(AnswerParts), answer # <<>>
  PROVE  /\ Answered(s, answer) \in Session
         /\ Answered(s, answer).status \in {"ready", "result"}
         /\ Answered(s, answer).status = "result" => Ok(Answered(s, answer))
<1> DEFINE part == Head(answer)
           rest == Tail(answer)
           status == IF part.kind = "rows" THEN "result" ELSE "ready"
           errnum == IF part = Refusal THEN "refused" ELSE "none"
<1>1. part \in AnswerParts /\ rest \in Seq(AnswerParts) /\ part.rows \in Nat
      /\ (part = Refusal => part.kind # "rows")
  BY HeadTail, PartFacts
<1>2. Answered(s, answer) = [s EXCEPT !.status = status, !.rows = part.rows, !.left = rest,
                                      !.errnum = errnum]
  BY DEF Answered
<1>3. /\ status \in {"ready", "result"} /\ errnum \in Errors
      /\ status = "result" => errnum = "none"
  BY <1>1 DEF Errors
<1> HIDE DEF part, rest, status, errnum
<1> QED BY <1>1, <1>2, <1>3 DEF Session, Ok

(* A statement that is accepted found the session ready; no statement      *)
(* makes or ends the reading of a result set.                              *)
LEMMA RealQueryFacts ==
  ASSUME NEW s \in Session, NEW answer \in Seq(AnswerParts), answer # <<>>
  PROVE  LET sent == RealQuery(s, answer)
         IN /\ sent \in Session
            /\ sent.status = "use" <=> s.status = "use"
            /\ Ok(sent) => s.status = "ready" /\ sent.status \in {"ready", "result"}
            /\ sent.status = "result" => s.status = "result" \/ Ok(sent)
<1>1. CASE ~s.up
  BY <1>1, FailedFacts DEF RealQuery, Errors
<1>2. CASE s.up /\ (s.status # "ready" \/ s.left # <<>>)
  BY <1>2, FailedFacts DEF RealQuery, Errors
<1>3. CASE s.up /\ ~(s.status # "ready" \/ s.left # <<>>)
  BY <1>3, AnsweredFacts DEF RealQuery
<1> QED BY <1>1, <1>2, <1>3

LEMMA AnswerFacts ==
  ASSUME NEW given, NEW answer \in AnswersTo(given)
  PROVE  answer \in Seq(AnswerParts) /\ answer # <<>>
<1>1. Refusal \in AnswerParts
  BY DEF AnswerParts, Refusal
<1>2. <<Refusal>> \in Seq(AnswerParts) /\ <<Refusal>> # <<>>
  BY <1>1
<1> QED BY <1>2, QueryAssumption DEF AnswersTo

LEMMA StoreResultFacts ==
  ASSUME NEW s \in Session, NEW t \in StoreResult(s)
  PROVE  /\ t \in Session
         /\ t.status = IF s.status = "result" THEN "ready" ELSE s.status
<1>1. CASE s.status = "result"
  <2>1. \/ t = [s EXCEPT !.status = "ready", !.rows = 0]
        \/ t = [Lost(s) EXCEPT !.rows = 0]
    BY <1>1 DEF StoreResult
  <2>2. Lost(s) \in Session /\ Lost(s).status = "ready"
    BY LostFacts
  <2>3. CASE t = [s EXCEPT !.status = "ready", !.rows = 0]
    BY <1>1, <2>3 DEF Session
  <2>4. CASE t = [Lost(s) EXCEPT !.rows = 0]
    BY <1>1, <2>2, <2>4 DEF Session
  <2> QED BY <2>1, <2>3, <2>4
<1>2. CASE s.status # "result"
  BY <1>2 DEF StoreResult
<1> QED BY <1>1, <1>2

(* The next result of an answer, if it has rows, is one that store_next()  *)
(* will take.                                                              *)
LEMMA NextResultFacts ==
  ASSUME NEW s \in Session
  PROVE  /\ NextResult(s) \in Session
         /\ NextResult(s).status = "use" <=> s.status = "use"
         /\ NextResult(s).status = "result" =>
              s.status = "result" \/ NextCode(s) = "nr_more_results"
         /\ NextCode(s) = "nr_more_results" => s.status = "ready" /\ Ok(NextResult(s))
<1>1. CASE s.status # "ready"
  <2>1. NextResult(s) = Failed(s, "sync")
    BY <1>1 DEF NextResult
  <2>2. NextResult(s) \in Session /\ NextResult(s).status = s.status /\ ~Ok(NextResult(s))
    BY <2>1, FailedFacts DEF Errors
  <2> QED BY <2>2, <1>1 DEF NextCode
<1>2. CASE s.status = "ready" /\ ~MoreResults(s)
  <2>1. NextResult(s) = Failed(s, "none")
    BY <1>2 DEF NextResult
  <2>2. NextResult(s) \in Session /\ NextResult(s).status = s.status
    BY <2>1, FailedFacts DEF Errors
  <2>3. NextCode(s) # "nr_more_results"
    BY <1>2 DEF NextCode
  <2> QED BY <1>2, <2>2, <2>3
<1>3. CASE s.status = "ready" /\ MoreResults(s)
  <2>1. NextResult(s) = Answered(s, s.left)
    BY <1>3 DEF NextResult
  <2>2. s.left \in Seq(AnswerParts) /\ s.left # <<>>
    BY <1>3 DEF Session, MoreResults
  <2>3. /\ NextResult(s) \in Session /\ NextResult(s).status \in {"ready", "result"}
        /\ NextResult(s).status = "result" => Ok(NextResult(s))
    BY <2>1, <2>2, AnsweredFacts
  <2> QED BY <1>3, <2>3 DEF NextCode
<1> QED BY <1>1, <1>2, <1>3

-----------------------------------------------------------------------------
(* References                                                              *)

One(a, b) == IF a = b THEN 1 ELSE 0

LEMMA AddRemoveCount ==
  ASSUME NEW S, IsFiniteSet(S), NEW x
  PROVE  /\ Cardinality(S \cup {x}) = IF x \in S THEN Cardinality(S) ELSE Cardinality(S) + 1
         /\ Cardinality(S \ {x}) = IF x \in S THEN Cardinality(S) - 1 ELSE Cardinality(S)
BY FS_AddElement, FS_RemoveElement

HoldersIn(f, h) == {o \in Objects : f[o].handle = h}

(* When one object refers to another result set than before, the numbers   *)
(* of holders follow.                                                      *)
LEMMA HoldersCount ==
  ASSUME NEW f \in [Objects -> ResultObjects], NEW o \in Objects, NEW new \in ResultObjects,
         NEW g, \A p \in Objects : g[p] = IF p = o THEN new ELSE f[p], NEW h
  PROVE  /\ HoldersIn(g, h) = IF new.handle = h THEN HoldersIn(f, h) \cup {o}
                                               ELSE HoldersIn(f, h) \ {o}
         /\ Cardinality(HoldersIn(g, h)) =
              Cardinality(HoldersIn(f, h)) + One(new.handle, h) - One(f[o].handle, h)
<1>1. HoldersIn(g, h) = IF new.handle = h THEN HoldersIn(f, h) \cup {o}
                                          ELSE HoldersIn(f, h) \ {o}
  BY DEF HoldersIn
<1>2. o \in HoldersIn(f, h) <=> f[o].handle = h
  BY DEF HoldersIn
<1>3. IsFiniteSet(HoldersIn(f, h)) /\ Cardinality(HoldersIn(f, h)) \in Nat
  BY QueryAssumption, FS_Subset, FS_CardinalityType DEF HoldersIn
<1>4. Cardinality(HoldersIn(f, h) \cup {o}) =
        IF f[o].handle = h THEN Cardinality(HoldersIn(f, h)) ELSE Cardinality(HoldersIn(f, h)) + 1
  BY <1>2, <1>3, AddRemoveCount
<1>5. Cardinality(HoldersIn(f, h) \ {o}) =
        IF f[o].handle = h THEN Cardinality(HoldersIn(f, h)) - 1 ELSE Cardinality(HoldersIn(f, h))
  BY <1>2, <1>3, AddRemoveCount
<1> QED BY <1>1, <1>3, <1>4, <1>5 DEF One
(* One object becomes another, and the references change as the holders    *)
(* do; one that joins others is, like them, no stored result.              *)
Becomes(o, new) == \A p \in Objects : obj'[p] = IF p = o THEN new ELSE obj[p]
Counted(o, new) ==
  \A h \in Handles : res'[h].refs = res[h].refs + One(new.handle, h) - One(obj[o].handle, h)
MayJoin(o, new) ==
  new.handle \in Handles =>
    \A e \in Holders(new.handle) : e # o => obj[e].class = "use" /\ new.class = "use"

LEMMA HoldersNext ==
  ASSUME obj \in [Objects -> ResultObjects], NEW o \in Objects, NEW new \in ResultObjects,
         Becomes(o, new), NEW h
  PROVE  /\ HoldersIn(obj', h) = IF new.handle = h THEN Holders(h) \cup {o} ELSE Holders(h) \ {o}
         /\ Cardinality(HoldersIn(obj', h)) =
              Cardinality(Holders(h)) + One(new.handle, h) - One(obj[o].handle, h)
<1>1. HoldersIn(obj, h) = Holders(h)
  BY DEF Holders, HoldersIn
<1>2. \A p \in Objects : obj'[p] = IF p = o THEN new ELSE obj[p]
  BY DEF Becomes
<1>3. /\ HoldersIn(obj', h) = IF new.handle = h THEN HoldersIn(obj, h) \cup {o}
                                                ELSE HoldersIn(obj, h) \ {o}
      /\ Cardinality(HoldersIn(obj', h)) =
           Cardinality(HoldersIn(obj, h)) + One(new.handle, h) - One(obj[o].handle, h)
  BY <1>2, HoldersCount
<1> QED BY <1>1, <1>3

LEMMA CountStep ==
  ASSUME TypeOK, CountInv, NEW o \in Objects, NEW new \in ResultObjects,
         Becomes(o, new), Counted(o, new), MayJoin(o, new)
  PROVE  CountInv'
<1>1. obj \in [Objects -> ResultObjects]
  BY DEF TypeOK, ResultObjects
<1> SUFFICES ASSUME NEW h \in Handles
             PROVE  /\ res'[h].refs = Cardinality(HoldersIn(obj', h))
                    /\ \A p, e \in HoldersIn(obj', h) : p # e => obj'[p].class = "use"
  BY DEF CountInv, Holders, HoldersIn
<1>2. /\ HoldersIn(obj', h) = IF new.handle = h THEN Holders(h) \cup {o} ELSE Holders(h) \ {o}
      /\ Cardinality(HoldersIn(obj', h)) =
           Cardinality(Holders(h)) + One(new.handle, h) - One(obj[o].handle, h)
  BY <1>1, HoldersNext
<1>3. res'[h].refs = Cardinality(HoldersIn(obj', h))
  BY <1>2 DEF CountInv, Counted
<1>4. ASSUME NEW p \in HoldersIn(obj', h), NEW e \in HoldersIn(obj', h), p # e
      PROVE  obj'[p].class = "use"
  <2>1. p \in Objects /\ e \in Objects
    BY <1>4 DEF HoldersIn
  <2>2. obj'[p] = IF p = o THEN new ELSE obj[p]
    BY <2>1 DEF Becomes
  <2>3. CASE new.handle = h
    <3>1. /\ p # o => p \in Holders(h)
          /\ e # o => e \in Holders(h)
      BY <1>2, <1>4, <2>3
    <3>2. CASE p = o
      BY <1>4, <2>2, <2>3, <3>1, <3>2 DEF MayJoin
    <3>3. CASE p # o /\ e = o
      BY <1>4, <2>2, <2>3, <3>1, <3>3 DEF MayJoin
    <3>4. CASE p # o /\ e # o
      BY <1>4, <2>2, <3>1, <3>4 DEF CountInv
    <3> QED BY <3>2, <3>3, <3>4
  <2>4. CASE new.handle # h
    <3>1. p # o /\ e # o /\ p \in Holders(h) /\ e \in Holders(h)
      BY <1>2, <1>4, <2>4
    <3> QED BY <1>4, <2>2, <3>1 DEF CountInv
  <2> QED BY <2>3, <2>4
<1> QED BY <1>3, <1>4

LEMMA RetainFacts ==
  ASSUME NEW r \in [Handles -> ResultSets], NEW h \in Handles \cup {None}
  PROVE  /\ Retain(r, h) \in [Handles -> ResultSets]
         /\ \A g \in Handles :
              /\ Retain(r, h)[g].refs = r[g].refs + One(h, g)
              /\ Retain(r, h)[g].open = r[g].open
              /\ h # g => Retain(r, h)[g] = r[g]
<1>1. CASE h = None
  BY <1>1, QueryAssumption DEF Retain, One, ResultSets
<1>2. CASE h # None
  BY <1>2, QueryAssumption DEF Retain, One, ResultSets
<1> QED BY <1>1, <1>2

LEMMA ReleaseFacts ==
  ASSUME NEW r \in [Handles -> ResultSets], NEW h \in Handles \cup {None},
         h # None => r[h].refs # 0
  PROVE  /\ Release(r, h) \in [Handles -> ResultSets]
         /\ \A g \in Handles :
              /\ Release(r, h)[g].refs = r[g].refs - One(h, g)
              /\ Release(r, h)[g].open <=> r[g].open /\ ~(h = g /\ r[g].refs = 1)
              /\ h # g => Release(r, h)[g] = r[g]
              /\ h = g /\ Release(r, h)[g].refs = 0 => Release(r, h)[g] = Free
<1>1. CASE h = None
  BY <1>1, QueryAssumption DEF Release, One, ResultSets
<1>2. CASE h # None /\ r[h].refs = 1
  <2>1. Free \in ResultSets /\ Free.refs = 0 /\ ~Free.open
    BY DEF Free, ResultSets
  <2>2. Release(r, h) = [r EXCEPT ![h] = Free]
    BY <1>2 DEF Release
  <2>3. h \in Handles /\ r[h] \in ResultSets
    BY <1>2
  <2> QED BY <1>2, <2>1, <2>2, <2>3 DEF One, ResultSets
<1>3. CASE h # None /\ r[h].refs # 1
  <2> DEFINE less == [r[h] EXCEPT !.refs = @ - 1]
  <2>1. Release(r, h) = [r EXCEPT ![h] = less]
    BY <1>3 DEF Release
  <2>2. h \in Handles /\ r[h] \in ResultSets /\ r[h].refs \in Nat /\ r[h].refs > 1
    BY <1>3 DEF ResultSets
  <2>3. less \in ResultSets /\ less.refs = r[h].refs - 1 /\ less.open = r[h].open
    BY <2>2 DEF ResultSets
  <2> HIDE DEF less
  <2>4. Release(r, h) \in [Handles -> ResultSets] /\ Release(r, h)[h] = less
        /\ \A g \in Handles : g # h => Release(r, h)[g] = r[g]
    BY <2>1, <2>2, <2>3
  <2>5. \A g \in Handles : r[g] \in ResultSets /\ r[g].open \in BOOLEAN /\ r[g].refs \in Nat
    BY DEF ResultSets
  <2> QED BY <1>3, <2>2, <2>3, <2>4, <2>5 DEF One
<1> QED BY <1>1, <1>2, <1>3

-----------------------------------------------------------------------------
(* What the calls do to results and objects                                *)

Types == /\ session \in Session
         /\ res \in [Handles -> ResultSets] /\ obj \in [Objects -> ResultObjects]

Shared == Types /\ FreeInv /\ CountInv /\ OpenInv

LEMMA TypesFact == ASSUME IInv PROVE TypeOK /\ Shared
BY DEF IInv, Types, Shared, TypeOK, ResultSets, ResultObjects

(* A step that makes or ends no result set.                                *)
LEMMA SameResults ==
  ASSUME Shared, UNCHANGED <<res, obj>>, session' \in Session,
         session'.status = "use" <=> session.status = "use"
  PROVE  Shared'
<1>1. Types' /\ FreeInv'
  BY DEF Shared, Types, FreeInv
<1>2. CountInv'
  BY DEF Shared, CountInv, Holders
<1>3. OpenInv'
  BY DEF Shared, OpenInv
<1> QED BY <1>1, <1>2, <1>3 DEF Shared

LEMMA BecomesOther ==
  ASSUME Types, NEW o \in Objects, NEW new \in ResultObjects, obj' = [obj EXCEPT ![o] = new]
  PROVE  Becomes(o, new) /\ obj' \in [Objects -> ResultObjects]
BY DEF Types, Becomes

(* Objects that refer to nothing are nobody's holders.                     *)
LEMMA NoHolders ==
  ASSUME TypeOK, CountInv, NEW h \in Handles, res[h].refs = 0
  PROVE  Holders(h) = {}
<1>1. IsFiniteSet(Holders(h)) /\ Cardinality(Holders(h)) = 0
  BY QueryAssumption, FS_Subset DEF CountInv, Holders
<1> QED BY <1>1, FS_EmptySet

(* An object without a result set.                                         *)
LEMMA NothingStep ==
  ASSUME IInv, NEW call, NEW class \in {"store", "use"}, NEW o \in Objects, obj[o].class = "none",
         NEW s \in Session, session' = s, s.status = "use" <=> session.status = "use",
         Nothing(call, class, o, s)
  PROVE  Shared' /\ ret'.out \in Outcomes
<1>1. TypeOK /\ Types /\ FreeInv /\ CountInv /\ OpenInv /\ Shared
  BY TypesFact DEF Shared
<1>2. CASE ~Ok(s) /\ throws.query
  <2>1. UNCHANGED <<res, obj>> /\ ret'.out = "BadQuery"
    BY <1>2 DEF Nothing, Return
  <2> QED BY <1>1, <2>1, SameResults DEF Outcomes
<1>3. CASE ~(~Ok(s) /\ throws.query)
  <2> DEFINE new == [obj[o] EXCEPT !.class = class]
  <2>1. /\ obj' = [obj EXCEPT ![o].class = class]
        /\ res' = res /\ ret'.out = "empty"
    BY <1>3 DEF Nothing, Return
  <2>2. obj[o] \in ResultObjects /\ obj[o].handle = None
    BY <1>1 DEF Types, FreeInv
  <2>3. new \in ResultObjects /\ new.handle = None /\ new.class = class
    BY <2>2 DEF ResultObjects
  <2>4. obj' = [obj EXCEPT ![o] = new]
    BY <2>1
  <2> HIDE DEF new
  <2>5. Becomes(o, new) /\ obj' \in [Objects -> ResultObjects]
    BY <1>1, <2>3, <2>4, BecomesOther
  <2>6. Counted(o, new)
    BY <1>1, <2>1, <2>2, <2>3 DEF Counted, One, Types, ResultSets
  <2>7. MayJoin(o, new)
    BY <2>3, QueryAssumption DEF MayJoin
  <2>8. CountInv'
    BY <1>1, <2>3, <2>5, <2>6, <2>7, CountStep
  <2>9. FreeInv'
    BY <1>1, <2>1, <2>3, <2>5 DEF FreeInv, Becomes
  <2>10. OpenInv'
    BY <1>1, <2>1 DEF OpenInv
  <2>11. Types'
    BY <1>1, <2>1, <2>5 DEF Types
  <2> QED BY <2>1, <2>8, <2>9, <2>10, <2>11 DEF Shared, Outcomes
<1> QED BY <1>2, <1>3

(* A result set and the object that is its first reference.                *)
LEMMA NewHandle ==
  ASSUME IInv, NEW o \in Objects, obj[o].class = "none", NEW h \in Handles, res[h].refs = 0,
         NEW set \in ResultSets, set.refs = 1,
         NEW new \in ResultObjects, new.class # "none", new.handle = h,
         res' = [res EXCEPT ![h] = set], obj' = [obj EXCEPT ![o] = new],
         session' \in Session, session.status # "use",
         session'.status = "use" <=> set.open
  PROVE  Shared'
<1>1. TypeOK /\ Types /\ FreeInv /\ CountInv /\ OpenInv
  BY TypesFact DEF Shared
<1>2. Becomes(o, new) /\ obj' \in [Objects -> ResultObjects]
  BY <1>1, BecomesOther
<1>3. \A g \in Handles : res'[g] = IF g = h THEN set ELSE res[g]
  BY <1>1 DEF Types
<1>4. obj[o].handle = None /\ None # h
  BY <1>1, QueryAssumption DEF FreeInv
<1>5. Holders(h) = {}
  BY <1>1, NoHolders
<1>6. MayJoin(o, new)
  BY <1>5 DEF MayJoin
<1>7. Counted(o, new)
  <2>1. \A g \in Handles : res[g].refs \in Nat /\ g # None
    BY <1>1, QueryAssumption DEF Types, ResultSets
  <2> QED BY <2>1, <1>3, <1>4 DEF Counted, One
<1>8. CountInv'
  BY <1>1, <1>2, <1>6, <1>7, CountStep
<1>9. FreeInv'
  BY <1>1, <1>2, <1>3 DEF FreeInv, Becomes
<1>10. OpenInv'
  <2>1. \A g \in Handles : ~res[g].open
    BY <1>1 DEF OpenInv
  <2> QED BY <2>1, <1>3 DEF OpenInv
<1>11. Types'
  BY <1>1, <1>2 DEF Types
<1> QED BY <1>8, <1>9, <1>10, <1>11 DEF Shared

OpenIn(s, r) ==
  /\ s.status = "use" <=> \E h \in Handles : r[h].open
  /\ \A h, g \in Handles : r[h].open /\ r[g].open => h = g
FreeIn(r) == \A h \in Handles : r[h].refs = 0 => r[h] = Free

(* Letting a result set go ends its reading with its last reference.       *)
LEMMA LetGo ==
  ASSUME NEW s \in Session, NEW r \in [Handles -> ResultSets], NEW h \in Handles \cup {None},
         h # None => r[h].refs # 0, OpenIn(s, r), FreeIn(r)
  PROVE  /\ FreeResult(s, r, h) \in Session
         /\ OpenIn(FreeResult(s, r, h), Release(r, h)) /\ FreeIn(Release(r, h))
<1> DEFINE after == Release(r, h)
<1>1. /\ after \in [Handles -> ResultSets]
      /\ \A g \in Handles :
           /\ after[g].open <=> r[g].open /\ ~(h = g /\ r[g].refs = 1)
           /\ h # g => after[g] = r[g]
           /\ h = g /\ after[g].refs = 0 => after[g] = Free
  BY ReleaseFacts
<1> HIDE DEF after
<1>2. FreeIn(after)
  BY <1>1 DEF FreeIn
<1>3. CASE h # None /\ r[h].refs = 1 /\ r[h].open
  <2>1. FreeResult(s, r, h) = Flushed(s)
    BY <1>3 DEF FreeResult
  <2>2. Flushed(s) \in Session /\ Flushed(s).status = "ready"
    BY LostFacts
  <2>3. \A g \in Handles : ~after[g].open
    BY <1>1, <1>3 DEF OpenIn
  <2>4. OpenIn(Flushed(s), after)
    BY <2>2, <2>3 DEF OpenIn
  <2> QED BY <2>1, <2>2, <2>4, <1>2 DEF after
<1>4. CASE ~(h # None /\ r[h].refs = 1 /\ r[h].open)
  <2>1. FreeResult(s, r, h) = s
    BY <1>4 DEF FreeResult
  <2>2. \A g \in Handles : after[g].open <=> r[g].open
    BY <1>1, <1>4, QueryAssumption
  <2>3. OpenIn(s, after)
    BY <2>2 DEF OpenIn
  <2> QED BY <2>1, <2>3, <1>2 DEF after
<1> QED BY <1>3, <1>4

LEMMA HolderCounts ==
  ASSUME Types, CountInv, NEW o \in Objects, obj[o].handle # None
  PROVE  obj[o].handle \in Handles /\ res[obj[o].handle].refs \in Nat \ {0}
<1> DEFINE h == obj[o].handle
<1>1. h \in Handles /\ o \in Holders(h)
  BY DEF Types, ResultObjects, Holders
<1>2. IsFiniteSet(Holders(h))
  BY QueryAssumption, FS_Subset DEF Holders
<1>3. Cardinality(Holders(h)) \in Nat /\ Cardinality(Holders(h)) # 0
  BY <1>1, <1>2, FS_EmptySet, FS_CardinalityType
<1> QED BY <1>1, <1>3 DEF CountInv

(* A row is taken, or the end or an error is reached.                      *)
LEMMA ReadStep ==
  ASSUME IInv, NEW o \in Objects, NEW h, h = obj[o].handle, h # None,
         NEW set \in ResultSets, set.refs = res[h].refs,
         res' = [res EXCEPT ![h] = set], obj' = obj, session' \in Session,
         OpenIn(session', res')
  PROVE  Shared'
<1>1. TypeOK /\ Types /\ FreeInv /\ CountInv /\ OpenInv
  BY TypesFact DEF Shared
<1>2. h \in Handles /\ res[h].refs # 0
  BY <1>1, HolderCounts
<1>3. \A g \in Handles : res'[g] = IF g = h THEN set ELSE res[g]
  BY <1>1 DEF Types
<1>4. \A g \in Handles : res'[g].refs = res[g].refs
  BY <1>3
<1>5. CountInv'
  BY <1>1, <1>4 DEF CountInv, Holders
<1>6. FreeInv'
  BY <1>1, <1>2, <1>3 DEF FreeInv
<1>7. OpenInv'
  BY DEF OpenInv, OpenIn
<1>8. Types'
  BY <1>1, <1>2 DEF Types
<1> QED BY <1>5, <1>6, <1>7, <1>8 DEF Shared

(* One object takes another's place or goes.                               *)
LEMMA ChangeHands ==
  ASSUME IInv, NEW o \in Objects, NEW new \in ResultObjects, obj' = [obj EXCEPT ![o] = new],
         new.class = "none" => new.handle = None,
         res' \in [Handles -> ResultSets], Counted(o, new), MayJoin(o, new),
         session' \in Session, OpenIn(session', res'), FreeIn(res')
  PROVE  Shared'
<1>1. TypeOK /\ Types /\ FreeInv /\ CountInv /\ OpenInv
  BY TypesFact DEF Shared
<1>2. Becomes(o, new) /\ obj' \in [Objects -> ResultObjects]
  BY <1>1, BecomesOther
<1>3. CountInv'
  BY <1>1, <1>2, CountStep
<1>4. FreeInv'
  BY <1>1, <1>2 DEF FreeInv, FreeIn, Becomes
<1>5. OpenInv'
  BY DEF OpenInv, OpenIn
<1>6. Types'
  BY <1>2 DEF Types
<1> QED BY <1>3, <1>4, <1>5, <1>6 DEF Shared

-----------------------------------------------------------------------------
(* The calls                                                               *)

Rest == /\ throws' \in [driver : BOOLEAN, query : BOOLEAN]
        /\ text' \in 0..MaxText
        /\ good' \in BOOLEAN
        /\ ret'.out \in Outcomes

LEMMA TypesBack == ASSUME IInv, Shared', Rest PROVE IInv'
<1>1. TypeOK'
  <2>1. /\ res' \in [Handles -> ResultSets] /\ obj' \in [Objects -> ResultObjects]
        /\ session' \in Session
    BY DEF Shared, Types
  <2>2. session'.status \in {"ready", "result", "use"} /\ session'.errnum \in Errors
    BY <2>1 DEF Session
  <2> QED BY <2>1, <2>2 DEF TypeOK, Rest, ResultSets, ResultObjects
<1> QED BY <1>1 DEF IInv, Shared, Types

LEMMA FinishFacts ==
  ASSUME IInv, NEW s, Finish(s)
  PROVE  session' = s /\ text' \in 0..MaxText /\ good' \in BOOLEAN
BY QueryAssumption DEF Finish, IInv, TypeOK, Ok

LEMMA WriteStep == ASSUME IInv, Write PROVE IInv'
<1>1. Shared /\ TypeOK
  BY TypesFact
<1>2. UNCHANGED <<res, obj, session>>
  BY DEF Write
<1>3. Shared'
  BY <1>1, <1>2, SameResults DEF Shared, Types
<1>4. Rest
  BY <1>1, QueryAssumption DEF Write, Return, Rest, TypeOK, Outcomes
<1> QED BY <1>3, <1>4, TypesBack

LEMMA ResetStep == ASSUME IInv, Reset PROVE IInv'
<1>1. Shared /\ TypeOK
  BY TypesFact
<1>2. UNCHANGED <<res, obj, session>>
  BY DEF Reset
<1>3. Shared'
  BY <1>1, <1>2, SameResults DEF Shared, Types
<1>4. Rest
  BY <1>1, QueryAssumption DEF Reset, Return, Rest, TypeOK, Outcomes
<1> QED BY <1>3, <1>4, TypesBack

LEMMA ExecuteStep == ASSUME IInv, NEW given \in BOOLEAN, Execute(given) PROVE IInv'
<1>1. Shared /\ TypeOK /\ session \in Session
  BY TypesFact DEF Shared, Types
<1>2. PICK answer \in AnswersTo(given) :
        /\ Finish(RealQuery(session, answer))
        /\ Return("execute", IF Ok(RealQuery(session, answer)) THEN "ok"
                             ELSE IF throws.query THEN "BadQuery" ELSE "empty")
  BY DEF Execute
<1> DEFINE sent == RealQuery(session, answer)
<1>3. sent \in Session /\ (sent.status = "use" <=> session.status = "use")
  BY <1>1, AnswerFacts, RealQueryFacts
<1>4. session' = sent /\ text' \in 0..MaxText /\ good' \in BOOLEAN
  BY <1>2, FinishFacts
<1>5. UNCHANGED <<throws, res, obj>>
  BY DEF Execute
<1>6. Shared'
  BY <1>1, <1>3, <1>4, <1>5, SameResults
<1>7. ret'.out \in {"ok", "BadQuery", "empty"}
  BY <1>2 DEF Return
<1>8. Rest
  BY <1>1, <1>4, <1>5, <1>7 DEF Rest, TypeOK, Outcomes
<1> QED BY <1>6, <1>8, TypesBack

(* Rows that were copied into a StoreQueryResult.                          *)
LEMMA StoredStep ==
  ASSUME IInv, NEW call, NEW o \in Objects, obj[o].class = "none", NEW n \in Nat,
         Stored(call, o, n), session' \in Session, session'.status = "ready",
         session.status # "use"
  PROVE  Shared' /\ ret'.out \in Outcomes
<1>1. Shared /\ TypeOK
  BY TypesFact
<1>2. CASE throws.driver
  BY <1>1, <1>2, SameResults DEF Stored, Return, Outcomes
<1>3. CASE ~throws.driver
  <2> DEFINE set == [refs |-> 1, rows |-> n, taken |-> n, open |-> FALSE]
             new(h) == [class |-> "store", handle |-> h, good |-> TRUE]
  <2>1. PICK h \in Handles : /\ res[h].refs = 0
                             /\ res' = [res EXCEPT ![h] = set]
                             /\ obj' = [obj EXCEPT ![o] = new(h)]
                             /\ Return(call, "ok")
    BY <1>3 DEF Stored
  <2>2. set \in ResultSets /\ set.refs = 1 /\ ~set.open
    BY DEF ResultSets
  <2>3. new(h) \in ResultObjects /\ new(h).class # "none" /\ new(h).handle = h
    BY DEF ResultObjects
  <2>4. Shared'
    <3> HIDE DEF set, new
    <3> QED BY <2>1, <2>2, <2>3, NewHandle
  <2>5. ret'.out \in Outcomes
    BY <2>1 DEF Return, Outcomes
  <2> QED BY <2>4, <2>5
<1> QED BY <1>2, <1>3

(* The result of a statement or of the rest of an answer is stored, or     *)
(* there is none.                                                          *)
LEMMA StoringStep ==
  ASSUME IInv, NEW call, NEW o \in Objects, obj[o].class = "none",
         NEW sent \in Session, sent.status = "use" <=> session.status = "use",
         NEW more \in BOOLEAN, NEW s \in IF more THEN StoreResult(sent) ELSE {sent},
         session' = s,
         IF more /\ Ok(s) /\ sent.status = "result" THEN Stored(call, o, sent.rows)
                                                    ELSE Nothing(call, "store", o, s)
  PROVE  Shared' /\ ret'.out \in Outcomes
<1>1. /\ s \in Session /\ (s.status = "use" <=> session.status = "use")
      /\ more /\ sent.status = "result" => s.status = "ready"
  BY StoreResultFacts
<1>2. CASE more /\ Ok(s) /\ sent.status = "result"
  <2>1. sent.rows \in Nat
    BY DEF Session
  <2> QED BY <1>1, <1>2, <2>1, StoredStep
<1>3. CASE ~(more /\ Ok(s) /\ sent.status = "result")
  BY <1>1, <1>3, NothingStep
<1> QED BY <1>2, <1>3

LEMMA StoreStep ==
  ASSUME IInv, NEW o \in Objects, NEW given \in BOOLEAN, Store(o, given) PROVE IInv'
<1>1. Shared /\ TypeOK /\ session \in Session /\ obj[o].class = "none" /\ throws' = throws
  BY TypesFact DEF Shared, Types, Store
<1>2. PICK answer \in AnswersTo(given) :
        \E s \in IF Ok(RealQuery(session, answer)) THEN StoreResult(RealQuery(session, answer))
                 ELSE {RealQuery(session, answer)} :
          /\ Finish(s)
          /\ IF Ok(s) /\ RealQuery(session, answer).status = "result"
             THEN Stored("store", o, RealQuery(session, answer).rows)
             ELSE Nothing("store", "store", o, s)
  BY DEF Store
<1> DEFINE sent == RealQuery(session, answer)
           more == Ok(sent)
<1>3. sent \in Session /\ (sent.status = "use" <=> session.status = "use")
  BY <1>1, AnswerFacts, RealQueryFacts
<1>4. PICK s \in IF more THEN StoreResult(sent) ELSE {sent} :
        /\ Finish(s)
        /\ IF Ok(s) /\ sent.status = "result" THEN Stored("store", o, sent.rows)
                                              ELSE Nothing("store", "store", o, s)
  BY <1>2
<1>5. more \in BOOLEAN /\ (~more => ~Ok(s))
  BY <1>4 DEF Ok
<1>6. session' = s /\ text' \in 0..MaxText /\ good' \in BOOLEAN
  BY <1>4, FinishFacts
<1>7. Shared' /\ ret'.out \in Outcomes
  <2> HIDE DEF sent, more
  <2>1. IF more /\ Ok(s) /\ sent.status = "result" THEN Stored("store", o, sent.rows)
                                                   ELSE Nothing("store", "store", o, s)
    BY <1>4, <1>5
  <2> QED BY <1>1, <1>3, <1>4, <1>5, <1>6, <2>1, StoringStep
<1>8. Rest
  BY <1>1, <1>6, <1>7 DEF Rest, TypeOK
<1> QED BY <1>7, <1>8, TypesBack

LEMMA StoreNextStep ==
  ASSUME IInv, NEW o \in Objects, StoreNext(o) PROVE IInv'
<1> DEFINE next == NextResult(session)
           more == NextCode(session) = "nr_more_results"
<1>1. /\ Shared /\ TypeOK /\ session \in Session /\ obj[o].class = "none"
      /\ UNCHANGED <<throws, text, good>>
  BY TypesFact DEF Shared, Types, StoreNext
<1>2. PICK s \in IF more THEN StoreResult(next) ELSE {next} :
        /\ session' = s
        /\ IF more /\ Ok(s) /\ next.status = "result" THEN Stored("store_next", o, next.rows)
                                                      ELSE Nothing("store_next", "store", o, s)
  BY DEF StoreNext
<1>3. next \in Session /\ (next.status = "use" <=> session.status = "use") /\ more \in BOOLEAN
  BY <1>1, NextResultFacts
<1>4. Shared' /\ ret'.out \in Outcomes
  <2> HIDE DEF next, more
  <2> QED BY <1>1, <1>2, <1>3, StoringStep
<1>5. Rest
  BY <1>1, <1>4 DEF Rest, TypeOK
<1> QED BY <1>4, <1>5, TypesBack

LEMMA UseStep ==
  ASSUME IInv, NEW o \in Objects, NEW given \in BOOLEAN, Use(o, given) PROVE IInv'
<1>1. Shared /\ TypeOK /\ session \in Session /\ obj[o].class = "none" /\ throws' = throws
  BY TypesFact DEF Shared, Types, Use
<1> DEFINE sent(answer) == RealQuery(session, answer)
           set(answer) == [refs |-> 1, rows |-> sent(answer).rows, taken |-> 0, open |-> TRUE]
           new(h) == [class |-> "use", handle |-> h, good |-> FALSE]
<1>2. PICK answer \in AnswersTo(given) :
        IF Ok(sent(answer)) /\ sent(answer).status = "result"
        THEN /\ Finish(UseResult(sent(answer)))
             /\ \E h \in Handles : /\ res[h].refs = 0
                                   /\ res' = [res EXCEPT ![h] = set(answer)]
                                   /\ obj' = [obj EXCEPT ![o] = new(h)]
             /\ Return("use", "ok")
        ELSE Finish(sent(answer)) /\ Nothing("use", "use", o, sent(answer))
  BY DEF Use
<1>3. /\ sent(answer) \in Session
      /\ sent(answer).status = "use" <=> session.status = "use"
      /\ Ok(sent(answer)) => session.status = "ready"
  BY <1>1, AnswerFacts, RealQueryFacts
<1>4. CASE Ok(sent(answer)) /\ sent(answer).status = "result"
  <2>1. PICK h \in Handles : /\ res[h].refs = 0
                             /\ res' = [res EXCEPT ![h] = set(answer)]
                             /\ obj' = [obj EXCEPT ![o] = new(h)]
    BY <1>2, <1>4
  <2>2. /\ session' = UseResult(sent(answer))
        /\ text' \in 0..MaxText /\ good' \in BOOLEAN
    BY <1>2, <1>4, FinishFacts
  <2>3. session' \in Session /\ session'.status = "use"
    BY <1>3, <2>2, LostFacts
  <2>4. set(answer) \in ResultSets /\ set(answer).refs = 1 /\ set(answer).open
    BY <1>3 DEF ResultSets, Session
  <2>5. new(h) \in ResultObjects /\ new(h).class # "none" /\ new(h).handle = h
    BY DEF ResultObjects
  <2>6. ret'.out \in Outcomes
    BY <1>2, <1>4 DEF Return, Outcomes
  <2>7. Shared'
    <3>1. session.status # "use"
      BY <1>3, <1>4
    <3> HIDE DEF sent, set, new
    <3> QED BY <1>1, <2>1, <2>3, <2>4, <2>5, <3>1, NewHandle
  <2>8. Rest
    BY <1>1, <2>2, <2>6 DEF Rest, TypeOK
  <2> QED BY <2>7, <2>8, TypesBack
<1>5. CASE ~(Ok(sent(answer)) /\ sent(answer).status = "result")
  <2>1. Finish(sent(answer)) /\ Nothing("use", "use", o, sent(answer))
    BY <1>2, <1>5
  <2>2. session' = sent(answer) /\ text' \in 0..MaxText /\ good' \in BOOLEAN
    BY <2>1, FinishFacts
  <2>3. Shared' /\ ret'.out \in Outcomes
    <3> HIDE DEF sent
    <3> QED BY <1>1, <1>3, <2>1, <2>2, NothingStep
  <2>4. Rest
    BY <1>1, <2>2, <2>3 DEF Rest, TypeOK
  <2> QED BY <2>3, <2>4, TypesBack
<1> QED BY <1>4, <1>5

LEMMA FetchRowStep == ASSUME IInv, NEW o \in Objects, FetchRow(o) PROVE IInv'
<1> DEFINE h == obj[o].handle
<1>1. /\ Shared /\ TypeOK /\ Types /\ FreeInv /\ CountInv /\ OpenInv
      /\ UNCHANGED <<throws, text, good, obj>> /\ h # None
  BY TypesFact DEF Shared, FetchRow
<1>2. session \in Session /\ h \in Handles /\ res[h] \in ResultSets /\ OpenIn(session, res)
  BY <1>1, HolderCounts DEF Types, OpenInv, OpenIn
<1>3. /\ res[h].refs \in Nat /\ res[h].rows \in Nat /\ res[h].taken \in Nat
      /\ res[h].open \in BOOLEAN
  BY <1>2 DEF ResultSets
<1>4. CASE /\ res[h].open
           /\ res' = [res EXCEPT ![h].taken = @ + 1]
           /\ Return("fetch_row", "row")
           /\ UNCHANGED session
  <2> DEFINE set == [res[h] EXCEPT !.taken = @ + 1]
  <2>1. set \in ResultSets /\ set.refs = res[h].refs /\ set.open = res[h].open
    BY <1>2, <1>3 DEF ResultSets
  <2>2. res' = [res EXCEPT ![h] = set]
    BY <1>4
  <2>3. OpenIn(session', res')
    <3> HIDE DEF set, h
    <3>1. \A g \in Handles : res'[g].open = res[g].open
      BY <1>1, <1>2, <2>1, <2>2 DEF Types
    <3> QED BY <3>1, <1>2, <1>4 DEF OpenIn
  <2>4. Shared'
    <3> HIDE DEF set
    <3> QED BY <1>1, <1>2, <1>4, <2>1, <2>2, <2>3, ReadStep
  <2>5. Rest
    BY <1>1, <1>4 DEF Rest, TypeOK, Return, Outcomes
  <2> QED BY <2>4, <2>5, TypesBack
<1>5. CASE /\ res[h].open
           /\ res' = [res EXCEPT ![h].open = FALSE]
           /\ session' \in {Flushed(session), Lost(session),
                            [Failed(Flushed(session), "refused") EXCEPT !.left = <<>>]}
           /\ NullRow("fetch_row")
  <2> DEFINE set == [res[h] EXCEPT !.open = FALSE]
  <2>1. set \in ResultSets /\ set.refs = res[h].refs /\ ~set.open
    BY <1>2, <1>3 DEF ResultSets
  <2>2. res' = [res EXCEPT ![h] = set]
    BY <1>5
  <2>3. session' \in Session /\ session'.status = "ready"
    <3>1. /\ Flushed(session) \in Session /\ Flushed(session).status = "ready"
          /\ Lost(session) \in Session /\ Lost(session).status = "ready"
      BY <1>2, LostFacts
    <3> DEFINE broken == Failed(Flushed(session), "refused")
    <3>2. broken \in Session /\ broken.status = "ready"
      BY <3>1, FailedFacts DEF Errors
    <3> HIDE DEF broken
    <3>3. /\ [broken EXCEPT !.left = <<>>] \in Session
          /\ [broken EXCEPT !.left = <<>>].status = "ready"
      BY <3>2, EmptySeq DEF Session
    <3> QED BY <1>5, <3>1, <3>3 DEF broken
  <2>4. OpenIn(session', res')
    <3> HIDE DEF set, h
    <3>1. \A g \in Handles : ~res'[g].open
      BY <1>1, <1>2, <1>5, <2>1, <2>2 DEF Types, OpenIn
    <3> QED BY <3>1, <2>3 DEF OpenIn
  <2>5. Shared'
    <3> HIDE DEF set
    <3> QED BY <1>1, <1>2, <2>1, <2>2, <2>3, <2>4, ReadStep
  <2>6. Rest
    BY <1>1, <1>5 DEF Rest, TypeOK, NullRow, Return, Outcomes
  <2> QED BY <2>5, <2>6, TypesBack
<1>6. CASE UNCHANGED <<session, res>> /\ NullRow("fetch_row")
  <2>1. Shared'
    BY <1>1, <1>2, <1>6, SameResults
  <2>2. Rest
    BY <1>1, <1>6 DEF Rest, TypeOK, NullRow, Return, Outcomes
  <2> QED BY <2>1, <2>2, TypesBack
<1> QED BY <1>4, <1>5, <1>6 DEF FetchRow

LEMMA FetchFromNothingStep == ASSUME IInv, NEW o \in Objects, FetchFromNothing(o) PROVE IInv'
<1>1. Shared /\ TypeOK /\ session \in Session
  BY TypesFact DEF Shared, Types
<1>2. Shared'
  BY <1>1, SameResults DEF FetchFromNothing
<1>3. Rest
  BY <1>1 DEF FetchFromNothing, Rest, TypeOK, Return, Outcomes
<1> QED BY <1>2, <1>3, TypesBack

LEMMA CopyUseStep ==
  ASSUME IInv, NEW o \in Objects, NEW other \in Objects, CopyUse(o, other) PROVE IInv'
<1> DEFINE old == obj[o].handle
           new == obj[other]
           kept == Retain(res, new.handle)
<1>1. /\ TypeOK /\ Types /\ FreeInv /\ CountInv /\ OpenInv
      /\ res \in [Handles -> ResultSets] /\ session \in Session
      /\ old \in Handles \cup {None} /\ new \in ResultObjects
  BY TypesFact DEF Shared, Types, ResultObjects
<1>2. /\ new.class = "use" /\ o # other
      /\ res' = Release(kept, old) /\ session' = FreeResult(session, kept, old)
      /\ obj' = [obj EXCEPT ![o] = new]
      /\ Return("copy", "ok") /\ UNCHANGED <<throws, text, good>>
  BY DEF CopyUse
<1>3. new.handle \in Handles \cup {None}
  BY <1>1 DEF ResultObjects
<1>4. /\ kept \in [Handles -> ResultSets]
      /\ \A g \in Handles : /\ kept[g].refs = res[g].refs + One(new.handle, g)
                            /\ kept[g].open = res[g].open
                            /\ new.handle # g => kept[g] = res[g]
  BY <1>1, <1>3, RetainFacts
<1>5. \A g \in Handles : res[g].refs \in Nat
  BY <1>1 DEF ResultSets
<1>6. old # None => old \in Handles /\ res[old].refs \in Nat \ {0}
  BY <1>1, HolderCounts
<1>7. old # None => kept[old].refs # 0
  BY <1>4, <1>6 DEF One
<1>8. OpenIn(session, kept)
  BY <1>1, <1>4 DEF OpenIn, OpenInv
<1>9. FreeIn(kept)
  BY <1>1, <1>4, <1>5 DEF FreeIn, FreeInv, One
<1>10. /\ res' \in [Handles -> ResultSets]
       /\ \A g \in Handles : res'[g].refs = kept[g].refs - One(old, g)
  <2> HIDE DEF kept, old, new
  <2> QED BY <1>1, <1>2, <1>4, <1>7, ReleaseFacts
<1>11. session' \in Session /\ OpenIn(session', res') /\ FreeIn(res')
  <2> HIDE DEF kept, old, new
  <2> QED BY <1>1, <1>2, <1>4, <1>7, <1>8, <1>9, LetGo
<1>12. Counted(o, new)
  BY <1>4, <1>5, <1>10 DEF Counted, One
<1>13. MayJoin(o, new)
  <2> SUFFICES ASSUME new.handle \in Handles, NEW e \in Holders(new.handle), e # o
               PROVE  obj[e].class = "use"
    BY <1>2 DEF MayJoin
  <2>1. other \in Holders(new.handle)
    BY DEF Holders
  <2>2. CASE e = other
    BY <1>2, <2>2
  <2>3. CASE e # other
    BY <1>1, <2>1, <2>3 DEF CountInv
  <2> QED BY <2>2, <2>3
<1>14. Shared'
  <2> HIDE DEF new
  <2> QED BY <1>1, <1>2, <1>10, <1>11, <1>12, <1>13, ChangeHands
<1>15. Rest
  BY <1>1, <1>2 DEF Rest, TypeOK, Return, Outcomes
<1> QED BY <1>14, <1>15, TypesBack

(* A stored result does not share: o holds its result set alone.           *)
LEMMA CopyStoreStep ==
  ASSUME IInv, NEW o \in Objects, NEW other \in Objects, CopyStore(o, other) PROVE IInv'
<1> DEFINE new == [obj[other] EXCEPT !.handle = obj[o].handle]
<1>1. /\ TypeOK /\ Types /\ FreeInv /\ CountInv /\ OpenInv
      /\ res \in [Handles -> ResultSets] /\ session \in Session
      /\ obj[o] \in ResultObjects /\ obj[other] \in ResultObjects
  BY TypesFact DEF Shared, Types
<1>2. /\ obj[other].class = "store" /\ obj[o].class \in {"none", "store"}
      /\ obj' = [obj EXCEPT ![o] = new]
      /\ Return("copy", "ok") /\ UNCHANGED <<throws, text, good, session, res>>
  BY DEF CopyStore
<1>3. new \in ResultObjects /\ new.class = "store" /\ new.handle = obj[o].handle
  BY <1>1, <1>2 DEF ResultObjects
<1>4. Counted(o, new)
  BY <1>1, <1>2, <1>3 DEF Counted, One, ResultSets
<1>5. MayJoin(o, new)
  <2> SUFFICES ASSUME new.handle \in Handles, NEW e \in Holders(new.handle), e # o
               PROVE  FALSE
    BY DEF MayJoin
  <2>1. o \in Holders(new.handle)
    BY <1>3 DEF Holders
  <2>2. obj[o].class = "use"
    BY <1>1, <2>1 DEF CountInv
  <2> QED BY <1>2, <2>2
<1>6. res' \in [Handles -> ResultSets] /\ session' \in Session /\ OpenIn(session', res')
      /\ FreeIn(res')
  BY <1>1, <1>2 DEF OpenIn, OpenInv, FreeIn, FreeInv
<1>7. Shared'
  <2> HIDE DEF new
  <2> QED BY <1>2, <1>3, <1>4, <1>5, <1>6, ChangeHands
<1>8. Rest
  BY <1>1, <1>2 DEF Rest, TypeOK, Return, Outcomes
<1> QED BY <1>7, <1>8, TypesBack

LEMMA DestroyStep == ASSUME IInv, NEW o \in Objects, Destroy(o) PROVE IInv'
<1> DEFINE old == obj[o].handle
<1>1. /\ TypeOK /\ Types /\ FreeInv /\ CountInv /\ OpenInv
      /\ res \in [Handles -> ResultSets] /\ session \in Session
      /\ old \in Handles \cup {None}
  BY TypesFact DEF Shared, Types, ResultObjects
<1>2. /\ res' = Release(res, old) /\ session' = FreeResult(session, res, old)
      /\ obj' = [obj EXCEPT ![o] = Unborn]
      /\ Return("destroy", "ok") /\ UNCHANGED <<throws, text, good>>
  BY DEF Destroy
<1>3. Unborn \in ResultObjects /\ Unborn.handle = None
  BY DEF Unborn, ResultObjects
<1>4. old # None => res[old].refs # 0
  BY <1>1, HolderCounts
<1>5. OpenIn(session, res) /\ FreeIn(res)
  BY <1>1 DEF OpenIn, OpenInv, FreeIn, FreeInv
<1>6. /\ res' \in [Handles -> ResultSets]
      /\ \A g \in Handles : res'[g].refs = res[g].refs - One(old, g)
  BY <1>1, <1>2, <1>4, ReleaseFacts
<1>7. session' \in Session /\ OpenIn(session', res') /\ FreeIn(res')
  BY <1>1, <1>2, <1>4, <1>5, LetGo
<1>8. Counted(o, Unborn)
  <2>1. \A g \in Handles : One(Unborn.handle, g) = 0 /\ res[g].refs \in Nat
    BY <1>1, <1>3, QueryAssumption DEF One, ResultSets
  <2> QED BY <1>6, <2>1 DEF Counted, One
<1>9. MayJoin(o, Unborn)
  BY <1>3, QueryAssumption DEF MayJoin
<1>10. Shared'
  BY <1>2, <1>3, <1>6, <1>7, <1>8, <1>9, ChangeHands
<1>11. Rest
  BY <1>1, <1>2 DEF Rest, TypeOK, Return, Outcomes
<1> QED BY <1>10, <1>11, TypesBack

-----------------------------------------------------------------------------
(* The theorems                                                            *)

LEMMA Start == Init => IInv
<1> SUFFICES ASSUME Init PROVE IInv
  OBVIOUS
<1>1. /\ session = FreshSession /\ res = [h \in Handles |-> Free]
      /\ obj = [o \in Objects |-> Unborn]
  BY DEF Init
<1>2. FreshSession \in Session /\ FreshSession.status = "ready"
      /\ FreshSession.errnum \in Errors
  BY EmptySeq DEF FreshSession, Session, Errors
<1>3. Free \in ResultSets /\ Free.refs = 0 /\ ~Free.open
  BY DEF Free, ResultSets
<1>4. Unborn \in ResultObjects /\ Unborn.handle = None
  BY DEF Unborn, ResultObjects
<1>5. TypeOK
  <2>1. res \in [Handles -> ResultSets] /\ obj \in [Objects -> ResultObjects]
    BY <1>1, <1>3, <1>4
  <2> QED BY <1>1, <1>2, <2>1, QueryAssumption
          DEF TypeOK, Init, ResultSets, ResultObjects, Outcomes
<1>6. FreeInv
  BY <1>1, <1>4 DEF FreeInv
<1>7. CountInv
  <2>1. \A h \in Handles : res[h].refs = 0 /\ Holders(h) = {}
    BY <1>1, <1>3, <1>4, QueryAssumption DEF Holders
  <2> QED BY <2>1, FS_EmptySet DEF CountInv
<1>8. OpenInv
  BY <1>1, <1>2, <1>3 DEF OpenInv
<1> QED BY <1>1, <1>2, <1>5, <1>6, <1>7, <1>8 DEF IInv

LEMMA Step == IInv /\ [Next]_vars => IInv'
<1> SUFFICES ASSUME IInv, [Next]_vars PROVE IInv'
  OBVIOUS
<1>1. CASE UNCHANGED vars
  <2>1. /\ Shared /\ TypeOK /\ session \in Session
        /\ UNCHANGED <<throws, text, good, session, res, obj, ret>>
    BY <1>1, TypesFact DEF Shared, Types, vars
  <2>2. Shared'
    BY <2>1, SameResults
  <2>3. Rest
    BY <2>1 DEF Rest, TypeOK
  <2> QED BY <2>2, <2>3, TypesBack
<1>2. CASE Write
  BY <1>2, WriteStep
<1>3. CASE Reset
  BY <1>3, ResetStep
<1>4. ASSUME NEW given \in BOOLEAN, Execute(given) PROVE IInv'
  BY <1>4, ExecuteStep
<1>5. ASSUME NEW o \in Objects, NEW given \in BOOLEAN, Store(o, given) PROVE IInv'
  BY <1>5, StoreStep
<1>6. ASSUME NEW o \in Objects, NEW given \in BOOLEAN, Use(o, given) PROVE IInv'
  BY <1>6, UseStep
<1>7. ASSUME NEW o \in Objects, StoreNext(o) PROVE IInv'
  BY <1>7, StoreNextStep
<1>8. ASSUME NEW o \in Objects, FetchRow(o) PROVE IInv'
  BY <1>8, FetchRowStep
<1>9. ASSUME NEW o \in Objects, FetchFromNothing(o) PROVE IInv'
  BY <1>9, FetchFromNothingStep
<1>10. ASSUME NEW o \in Objects, NEW other \in Objects, CopyUse(o, other) PROVE IInv'
  BY <1>10, CopyUseStep
<1>11. ASSUME NEW o \in Objects, NEW other \in Objects, CopyStore(o, other) PROVE IInv'
  BY <1>11, CopyStoreStep
<1>12. ASSUME NEW o \in Objects, Destroy(o) PROVE IInv'
  BY <1>12, DestroyStep
<1> QED BY <1>1, <1>2, <1>3, <1>4, <1>5, <1>6, <1>7, <1>8, <1>9, <1>10, <1>11, <1>12 DEF Next

(* The inductive invariant: references are counted, addresses without any  *)
(* are free, and the session reads exactly the result set that is open.    *)
THEOREM Invariance == Spec => []IInv
BY Start, Step, PTL DEF Spec

(* Every variable keeps its type, the session of the C API's included.     *)
THEOREM TypeCorrect == Spec => []TypeOK
<1>1. IInv => TypeOK
  BY DEF IInv
<1> QED BY <1>1, Invariance, PTL

(* A result set is freed exactly with the last object that refers to it,   *)
(* and the connection reads rows exactly while some object of the program  *)
(* holds the set that is read: whatever the number of objects and whatever *)
(* the order in which they are copied, assigned and destroyed, the program *)
(* can always get the connection out of the reading it began               *)
(* (RefCountedPointer, UseQueryResult).                                    *)
THEOREM LastOneFrees == Spec => []FreedWithTheLast
<1>1. IInv => FreedWithTheLast
  <2> SUFFICES ASSUME IInv PROVE FreedWithTheLast
    OBVIOUS
  <2>1. /\ TypeOK /\ FreeInv /\ CountInv /\ OpenInv
        /\ \A h \in Handles : res[h].refs \in Nat
    BY TypesFact DEF Shared, Types, ResultSets
  <2>2. \A h \in Handles : res[h].open => h \in Live
    BY <2>1 DEF FreeInv, Free, Live
  <2>3. Live \subseteq Handles
    BY DEF Live
  <2>4. session.status = "use" <=> \E h \in Live : res[h].open
    BY <2>1, <2>2, <2>3 DEF OpenInv
  <2>5. \A h, g \in Live : res[h].open /\ res[g].open => h = g
    BY <2>1, <2>3 DEF OpenInv
  <2> QED BY <2>1, <2>4, <2>5 DEF FreedWithTheLast, CountInv
<1> QED BY <1>1, Invariance, PTL

(* A step of one kind or another: what the action properties tell apart.   *)
LEMMA Kinds ==
  ASSUME [Next]_vars
  PROVE  \/ UNCHANGED vars
         \/ UNCHANGED <<session, res>> /\ ret'.call \in {"operator<<", "reset", "fetch_row", "copy"}
         \/ \E given \in BOOLEAN : Execute(given)
         \/ \E o \in Objects, given \in BOOLEAN : Store(o, given) \/ Use(o, given)
         \/ \E o \in Objects : StoreNext(o) \/ FetchRow(o) \/ Destroy(o)
         \/ \E o, other \in Objects : CopyUse(o, other)
<1>1. Write \/ Reset => UNCHANGED <<session, res>> /\ ret'.call \in {"operator<<", "reset"}
  BY DEF Write, Reset, Return
<1>2. \A o \in Objects : FetchFromNothing(o) =>
        UNCHANGED <<session, res>> /\ ret'.call = "fetch_row"
  BY DEF FetchFromNothing, Return
<1>3. \A o, other \in Objects : CopyStore(o, other) =>
        UNCHANGED <<session, res>> /\ ret'.call = "copy"
  BY DEF CopyStore, Return
<1> QED BY <1>1, <1>2, <1>3 DEF Next

LEMMA FetchRowKinds ==
  ASSUME IInv, NEW o \in Objects, FetchRow(o)
  PROVE  /\ \/ session' = session
            \/ session'.status = "ready"
         /\ ret'.call = "fetch_row"
         /\ \A h \in Handles : res[h].open /\ ~res'[h].open /\ Ok(session') =>
              res[h].taken = res[h].rows
<1> DEFINE h == obj[o].handle
<1>1. /\ Types /\ CountInv /\ h # None
  BY TypesFact DEF Shared, FetchRow
<1>2. session \in Session /\ h \in Handles /\ res[h] \in ResultSets
      /\ res \in [Handles -> ResultSets]
  BY <1>1, HolderCounts DEF Types
<1>3. /\ Flushed(session) \in Session /\ Flushed(session).status = "ready"
      /\ Lost(session).status = "ready" /\ ~Ok(Lost(session))
  BY <1>2, LostFacts
<1> DEFINE refused == [Failed(Flushed(session), "refused") EXCEPT !.left = <<>>]
<1>4. refused.status = "ready" /\ ~Ok(refused)
  BY <1>3 DEF Failed, Ok, Session
<1>5. CASE session' = session /\ ret'.call = "fetch_row" /\ res' = [res EXCEPT ![h].taken = @ + 1]
  <2>1. \A g \in Handles : res'[g].open = res[g].open
    BY <1>2, <1>5 DEF ResultSets
  <2> QED BY <1>5, <2>1
<1>6. CASE /\ res[h].taken = res[h].rows /\ res' = [res EXCEPT ![h].open = FALSE]
           /\ session' = Flushed(session) /\ ret'.call = "fetch_row"
  <2>1. \A g \in Handles : g # h => res'[g].open = res[g].open
    BY <1>2, <1>6
  <2> QED BY <1>3, <1>6, <2>1
<1>7. CASE session' \in {Lost(session), refused} /\ ret'.call = "fetch_row"
  BY <1>3, <1>4, <1>7
<1>8. CASE UNCHANGED <<session, res>> /\ ret'.call = "fetch_row"
  BY <1>8
<1> QED BY <1>5, <1>6, <1>7, <1>8 DEF FetchRow, NullRow, Return

(* store() and store_next() leave the result set they could have taken.    *)
LEMMA TakenOrThere ==
  ASSUME NEW sent \in Session, NEW more \in BOOLEAN,
         NEW s \in IF more THEN StoreResult(sent) ELSE {sent}, s.status = "result"
  PROVE  ~more /\ sent.status = "result"
BY StoreResultFacts

(* Whatever the server answers, only execute() leaves a result set waiting *)
(* on the connection (Query::store(), store_next(), use()).                *)
THEOREM NobodyElseLeavesRows == Spec => OnlyExecuteLeavesRows
<1> DEFINE Kept == session'.status = "result" =>
                     session.status = "result" \/ ret'.call = "execute"
<1>1. IInv /\ [Next]_vars => [Kept]_vars
  <2> SUFFICES ASSUME IInv, [Next]_vars, session'.status = "result", ~UNCHANGED vars
               PROVE  session.status = "result" \/ ret'.call = "execute"
    OBVIOUS
  <2>1. session \in Session
    BY DEF IInv
  <2>2. ASSUME NEW given \in BOOLEAN, Execute(given) PROVE ret'.call = "execute"
    BY <2>2 DEF Execute, Return
  <2>3. ASSUME NEW o \in Objects, NEW given \in BOOLEAN, Store(o, given)
        PROVE  session.status = "result"
    <3>1. PICK answer \in AnswersTo(given) :
            \E s \in IF Ok(RealQuery(session, answer)) THEN StoreResult(RealQuery(session, answer))
                     ELSE {RealQuery(session, answer)} : session' = s
      BY <2>3 DEF Store, Finish
    <3> DEFINE sent == RealQuery(session, answer)
               more == Ok(sent)
    <3>2. sent \in Session /\ (sent.status = "result" => session.status = "result" \/ more)
      BY <2>1, AnswerFacts, RealQueryFacts
    <3>3. more \in BOOLEAN /\ session' \in IF more THEN StoreResult(sent) ELSE {sent}
      BY <3>1 DEF Ok
    <3> HIDE DEF sent, more
    <3> QED BY <3>2, <3>3, TakenOrThere
  <2>4. ASSUME NEW o \in Objects, NEW given \in BOOLEAN, Use(o, given)
        PROVE  session.status = "result"
    <3>1. PICK answer \in AnswersTo(given) :
            IF Ok(RealQuery(session, answer)) /\ RealQuery(session, answer).status = "result"
            THEN session' = UseResult(RealQuery(session, answer))
            ELSE session' = RealQuery(session, answer)
      BY <2>4 DEF Use, Finish
    <3> DEFINE sent == RealQuery(session, answer)
    <3>2. sent \in Session /\ (sent.status = "result" => session.status = "result" \/ Ok(sent))
      BY <2>1, AnswerFacts, RealQueryFacts
    <3>3. UseResult(sent).status = "use"
      BY <3>2, LostFacts
    <3> HIDE DEF sent
    <3> QED BY <3>1, <3>2, <3>3 DEF sent
  <2>5. ASSUME NEW o \in Objects, StoreNext(o) PROVE session.status = "result"
    <3> DEFINE next == NextResult(session)
               more == NextCode(session) = "nr_more_results"
    <3>1. session' \in IF more THEN StoreResult(next) ELSE {next}
      BY <2>5 DEF StoreNext
    <3>2. next \in Session /\ more \in BOOLEAN
          /\ (next.status = "result" => session.status = "result" \/ more)
      BY <2>1, NextResultFacts
    <3> HIDE DEF next, more
    <3> QED BY <3>1, <3>2, TakenOrThere
  <2>6. ASSUME NEW o \in Objects, FetchRow(o) PROVE session.status = "result"
    BY <2>6, FetchRowKinds
  <2>7. ASSUME NEW o \in Objects, NEW other \in Objects, Destroy(o) \/ CopyUse(o, other)
        PROVE  session.status = "result"
    <3>1. Flushed(session).status = "ready"
      BY <2>1, LostFacts
    <3>2. session' \in {session, Flushed(session)}
      BY <2>7 DEF Destroy, CopyUse, FreeResult
    <3> QED BY <3>1, <3>2
  <2> QED BY <2>2, <2>3, <2>4, <2>5, <2>6, <2>7, Kinds
<1> QED BY <1>1, Invariance, PTL DEF Spec, OnlyExecuteLeavesRows

(* When the loop over fetch_row() ends and there is no error on the        *)
(* connection, no row is missing: for any number of rows and of objects    *)
(* that share the result set (UseQueryResult::fetch_row()).                *)
THEOREM TheEndIsTheEnd == Spec => EndMeansAll
<1> DEFINE Whole == \A h \in Live :
             res[h].open /\ ~res'[h].open /\ ret'.call = "fetch_row" /\ Ok(session') =>
               res[h].taken = res[h].rows
<1>1. IInv /\ [Next]_vars => [Whole]_vars
  <2> SUFFICES ASSUME IInv, [Next]_vars, NEW h \in Handles,
                      res[h].open, ~res'[h].open, ret'.call = "fetch_row", Ok(session')
               PROVE  res[h].taken = res[h].rows
    BY DEF Live
  <2>1. ~UNCHANGED <<session, res>> /\ ~UNCHANGED vars
    BY DEF vars
  <2>2. \A o \in Objects, given \in BOOLEAN : ~Store(o, given) /\ ~Use(o, given)
    BY DEF Store, Use, Stored, Nothing, Return
  <2>3. \A o \in Objects : ~StoreNext(o) /\ ~Destroy(o)
    BY DEF StoreNext, Destroy, Stored, Nothing, Return
  <2>4. \A o, other \in Objects : ~CopyUse(o, other)
    BY DEF CopyUse, Return
  <2>5. \A given \in BOOLEAN : ~Execute(given)
    BY DEF Execute, Return
  <2> QED BY <2>1, <2>2, <2>3, <2>4, <2>5, Kinds, FetchRowKinds
<1> QED BY <1>1, Invariance, PTL DEF Spec, EndMeansAll

(* execute(), store() and use() empty the buffer exactly when they worked, *)
(* and never report a failure as a success (Query::reset()).               *)
THEOREM EmptiedIffGood == Spec => ResetIffGood
<1> DEFINE Emptied == Sends(ret'.call) =>
             /\ good' => text' = 0 /\ Ok(session')
             /\ ~good' => text' = text /\ ret'.out \in {"empty", "BadQuery"}
<1>1. IInv /\ [Next]_vars => [Emptied]_vars
  <2> SUFFICES ASSUME IInv, Next, Sends(ret'.call) PROVE Emptied
    OBVIOUS
  <2>1. ASSUME NEW s, Finish(s), ~Ok(s) => ret'.out \in {"empty", "BadQuery"}
        PROVE  Emptied
    BY <2>1 DEF Finish
  <2>2. ASSUME NEW given \in BOOLEAN, Execute(given) PROVE Emptied
    BY <2>1, <2>2 DEF Execute, Return
  <2>3. ASSUME NEW o \in Objects, NEW given \in BOOLEAN, Store(o, given) PROVE Emptied
    BY <2>1, <2>3 DEF Store, Nothing, Return
  <2>4. ASSUME NEW o \in Objects, NEW given \in BOOLEAN, Use(o, given) PROVE Emptied
    <3>1. PICK answer \in AnswersTo(given) :
            LET sent == RealQuery(session, answer)
            IN IF Ok(sent) /\ sent.status = "result"
               THEN Finish(UseResult(sent))
               ELSE Finish(sent) /\ Nothing("use", "use", o, sent)
      BY <2>4 DEF Use
    <3> DEFINE sent == RealQuery(session, answer)
    <3>2. sent \in Session
      BY AnswerFacts, RealQueryFacts DEF IInv
    <3>3. Ok(UseResult(sent)) <=> Ok(sent)
      BY <3>2, LostFacts
    <3>4. CASE Ok(sent) /\ sent.status = "result"
      <4>1. Finish(UseResult(sent))
        BY <3>1, <3>4
      <4> HIDE DEF sent
      <4> QED BY <2>1, <3>3, <3>4, <4>1
    <3>5. CASE ~(Ok(sent) /\ sent.status = "result")
      <4>1. Finish(sent) /\ Nothing("use", "use", o, sent)
        BY <3>1, <3>5
      <4> HIDE DEF sent
      <4> QED BY <2>1, <4>1 DEF Nothing, Return
    <3> QED BY <3>4, <3>5
  <2>5. ASSUME NEW o \in Objects, StoreNext(o) PROVE FALSE
    BY <2>5 DEF StoreNext, Stored, Nothing, Return, Sends
  <2>6. ASSUME NEW o \in Objects, FetchRow(o) \/ FetchFromNothing(o) \/ Destroy(o) PROVE FALSE
    BY <2>6 DEF FetchRow, FetchFromNothing, Destroy, NullRow, Return, Sends
  <2>7. ASSUME NEW o \in Objects, NEW other \in Objects, CopyUse(o, other) \/ CopyStore(o, other)
        PROVE  FALSE
    BY <2>7 DEF CopyUse, CopyStore, Return, Sends
  <2>8. ~Write /\ ~Reset
    BY DEF Write, Reset, Return, Sends
  <2> QED BY <2>2, <2>3, <2>4, <2>5, <2>6, <2>7, <2>8 DEF Next
<1> QED BY <1>1, Invariance, PTL DEF Spec, ResetIffGood
=============================================================================
