---------------------------- MODULE JobsApiProofs ----------------------------
(***************************************************************************)
(* Proofs about JobsApi, for any jobs, requests, sizes of buffers and      *)
(* subscriptions.  Documents: the serializer stays within its buffer and   *)
(* counts all it would print, so that a document is published whole or not *)
(* at all, and what is published is read as the caller meant it.  Topics:  *)
(* a filter takes the messages that its subscription is meant for.         *)
(***************************************************************************)
EXTENDS JobsApi, FiniteSetTheorems, TLAPS

\* What is written so far and what is left to print are the document.
Progress ==
  pc = "print" =>
    /\ call # NoCall /\ call.type = call.request.type
    /\ call.request \in Requests /\ Checked(call.request) /\ ~Empty(call.request)
    /\ Document(call.request) \in Seq(Fragment)
    /\ call.size \in Nat /\ total \in Nat /\ room \in Nat /\ gone \in BOOLEAN
    /\ todo \in Seq(Fragment) /\ text \in Seq(Fragment)
    /\ ~gone => /\ total + room = call.size
                /\ total > 0 => room > 0
                /\ text \o todo = Document(call.request)
    /\ gone => total >= call.size

\* A request is published with the whole document of what its caller asked for.
Complete ==
  sent # NoMessage =>
    /\ sent.type = sent.request.type
    /\ \/ Empty(sent.request)
       \/ /\ sent.request \in Requests /\ Checked(sent.request) /\ ~Empty(sent.request)
          /\ sent.text = Document(sent.request)

IInv == pc \in {"idle", "print"} /\ Progress /\ Complete

-----------------------------------------------------------------------------
(* Documents.                                                              *)

\* What the fields of D print is an object with those keys, each before its value.
Readable(t, D) ==
  /\ t \in Seq(Fragment) /\ D \subseteq Fields /\ (t = <<>> <=> D = {})
  /\ t # <<>> => Len(t) >= 2 /\ t[1].says = "{"
  /\ \A i \in 2..Len(t) : t[i].says \notin {"{", "}"}
  /\ \A i \in Keys(t) : t[i].what \in D /\ i + 1 \in DOMAIN t /\ t[i + 1].says = t[i].what
  /\ \A k \in D : \E i \in Keys(t) : t[i].what = k

\* Fields whose values can be printed
Printable(fields) ==
  \A k \in DOMAIN fields : fields[k] \in IF k = "status" THEN Status ELSE ValueOf(k)

LEMMA FragmentTypes ==
  ASSUME NEW k \in Fields, NEW v, v \in IF k = "status" THEN Status ELSE ValueOf(k)
  PROVE  /\ Value(k, v) \in Fragment /\ Value(k, v).says = k
         /\ k \notin {"{", ",", "}", "none"}
         /\ \A first \in BOOLEAN :
              /\ Key(first, k) \in Fragment /\ Key(first, k).what = k
              /\ Key(first, k).says = IF first THEN "{" ELSE ","
<1>a. k \notin {"{", ",", "}", "none"}
  BY DEF Fields
<1>1. KeyLength[k] \in Nat
  BY DEF Fields, KeyLength
<1>2. ASSUME NEW first \in BOOLEAN
      PROVE  /\ Key(first, k) \in Fragment /\ Key(first, k).what = k
             /\ Key(first, k).says = IF first THEN "{" ELSE ","
  <2>1. Key(first, k) \in Fragment /\ Key(first, k).what = k
    BY <1>1 DEF Key, Fragment
  <2>2. Key(first, k).says = IF first THEN "{" ELSE ","
    BY DEF Key
  <2> QED BY <2>1, <2>2
<1>3. Value(k, v) \in Fragment /\ Value(k, v).says = k
  <2>1. CASE k = "status"
    <3>1. v \in Status
      BY <2>1
    <3>2. StatusLength[v] \in Nat
      BY <3>1 DEF Status, StatusLength
    <3> QED BY <2>1, <3>1, <3>2 DEF Value, Fragment
  <2>2. CASE k \in {"includeJobExecutionState", "includeJobDocument"}
    BY <2>2 DEF Value, Fragment
  <2>3. CASE k = "clientToken"
    <3>1. v \in Nat
      BY <2>3 DEF ValueOf
    <3> QED BY <2>3, <3>1 DEF Value, Fragment
  <2>4. CASE k \in {"statusDetails", "executionNumber", "expectedVersion"}
    <3>1. v \in Nat
      BY <2>4 DEF ValueOf
    <3> QED BY <2>4, <3>1 DEF Value, Fragment
  <2> QED BY <2>1, <2>2, <2>3, <2>4 DEF Fields
<1> QED BY <1>a, <1>2, <1>3

\* Two more elements
LEMMA TwoMore ==
  ASSUME NEW S, NEW t \in Seq(S), NEW a \in S, NEW b \in S, NEW u, u = t \o <<a, b>>
  PROVE  /\ u \in Seq(S) /\ Len(u) = Len(t) + 2 /\ DOMAIN u = 1..(Len(t) + 2)
         /\ u[Len(t) + 1] = a /\ u[Len(t) + 2] = b
         /\ \A i \in 1..Len(t) : u[i] = t[i]
         /\ u # <<>>
OBVIOUS

LEMMA OneMore ==
  ASSUME NEW S, NEW t \in Seq(S), NEW a \in S, NEW u, u = t \o <<a>>
  PROVE  /\ u \in Seq(S) /\ Len(u) = Len(t) + 1 /\ DOMAIN u = 1..(Len(t) + 1)
         /\ u[Len(t) + 1] = a /\ \A i \in 1..Len(t) : u[i] = t[i]
OBVIOUS

LEMMA SequenceTypes ==
  ASSUME NEW S, NEW t \in Seq(S)
  PROVE  Len(t) \in Nat /\ DOMAIN t = 1..Len(t) /\ (t = <<>> <=> Len(t) = 0)
OBVIOUS

LEMMA FirstWith ==
  ASSUME NEW fields, NEW k \in DOMAIN fields
  PROVE  With(<<>>, k, fields)[2] = Value(k, fields[k])
<1> DEFINE u == With(<<>>, k, fields)
<1>1. PICK a, b : a = Key(TRUE, k) /\ b = Value(k, fields[k])
  OBVIOUS
<1>2. u = <<>> \o <<a, b>>
  BY <1>1 DEF With
<1> HIDE DEF u
<1>3. /\ <<>> \in Seq({a, b}) /\ a \in {a, b} /\ b \in {a, b} /\ Len(<<>>) + 2 = 2
  OBVIOUS
<1>4. u[Len(<<>>) + 2] = b
  BY <1>2, <1>3, TwoMore
<1> QED BY <1>1, <1>3, <1>4 DEF u

\* One more field
LEMMA WithReadable ==
  ASSUME NEW t, NEW D, Readable(t, D), NEW fields, Printable(fields), NEW k \in Fields
  PROVE  /\ Readable(With(t, k, fields), D \cup ({k} \cap DOMAIN fields))
         /\ t # <<>> => With(t, k, fields)[2] = t[2]
<1>1. CASE k \notin DOMAIN fields
  <2>1. With(t, k, fields) = t /\ D \cup ({k} \cap DOMAIN fields) = D
    BY <1>1 DEF With
  <2> QED BY <1>1, <2>1
<1>2. CASE k \in DOMAIN fields
  <2> DEFINE key == Key(t = <<>>, k)
             val == Value(k, fields[k])
             u == With(t, k, fields)
             E == D \cup ({k} \cap DOMAIN fields)
             n == Len(t)
  <2>1. t \in Seq(Fragment) /\ n \in Nat /\ DOMAIN t = 1..n /\ (t = <<>> <=> n = 0)
    <3>1. t \in Seq(Fragment)
      BY DEF Readable
    <3> QED BY <3>1, SequenceTypes
  <2>2. /\ key \in Fragment /\ key.what = k /\ (t = <<>> => key.says = "{")
        /\ t # <<>> => key.says = ","
        /\ val \in Fragment /\ val.says = k /\ k \notin {"{", ",", "}", "none"}
    <3>1. fields[k] \in IF k = "status" THEN Status ELSE ValueOf(k)
      BY <1>2 DEF Printable
    <3>2. (t = <<>>) \in BOOLEAN
      OBVIOUS
    <3> QED BY <3>1, <3>2, FragmentTypes
  <2>3. u = t \o <<key, val>> /\ E = D \cup {k} /\ E # {} /\ E \subseteq Fields
    BY <1>2 DEF With, Readable
  <2> HIDE DEF key, val, u, E
  <2>4. /\ u \in Seq(Fragment) /\ Len(u) = n + 2 /\ DOMAIN u = 1..(n + 2)
        /\ u[n + 1] = key /\ u[n + 2] = val /\ \A i \in 1..n : u[i] = t[i]
        /\ u # <<>>
    <3>1. key \in Fragment /\ val \in Fragment
      BY <2>2
    <3>2. u = t \o <<key, val>>
      BY <2>3
    <3> QED BY <2>1, <3>1, <3>2, TwoMore
  <2>5. Keys(u) = Keys(t) \cup {n + 1}
    <3>1. \A i \in 1..(n + 2) : i \in 1..n \/ i = n + 1 \/ i = n + 2
      BY <2>1
    <3>2. key.says \in {"{", ","}
      BY <2>2
    <3>3. val.says \notin {"{", ","}
      BY <2>2
    <3>4. /\ u[n + 1].says \in {"{", ","}
          /\ u[n + 2].says \notin {"{", ","}
          /\ \A i \in 1..n : u[i].says = t[i].says
      BY <2>4, <3>2, <3>3
    <3>5. DOMAIN u = (1..n) \cup {n + 1, n + 2} /\ DOMAIN t = 1..n
      BY <2>1, <2>4
    <3> QED BY <3>4, <3>5 DEF Keys
  <2>6. Len(u) >= 2 /\ u[1].says = "{"
    <3>1. Len(u) >= 2
      BY <2>1, <2>4
    <3>2. t # <<>> => t[1].says = "{" /\ n >= 2
      BY DEF Readable
    <3>3. CASE t # <<>>
      <4>1. 1 \in 1..n
        <5>1. n >= 2 /\ n \in Nat
          BY <2>1, <3>2, <3>3
        <5> HIDE DEF n
        <5> QED BY <5>1
      <4>2. u[1] = t[1]
        BY <2>4, <4>1
      <4> QED BY <3>1, <3>2, <3>3, <4>2
    <3>4. CASE t = <<>>
      <4>1. u[1] = key
        BY <2>1, <2>4, <3>4
      <4> QED BY <2>2, <3>1, <3>4, <4>1
    <3> QED BY <3>3, <3>4
  <2>7. \A i \in 2..Len(u) : u[i].says \notin {"{", "}"}
    <3> SUFFICES ASSUME NEW i \in 2..Len(u) PROVE u[i].says \notin {"{", "}"}
      OBVIOUS
    <3>1. CASE i \in 2..n
      <4>1. t[i].says \notin {"{", "}"}
        BY <3>1 DEF Readable
      <4>2. u[i] = t[i]
        BY <2>1, <2>4, <3>1
      <4> QED BY <4>1, <4>2
    <3>2. CASE i = n + 1
      <4>1. t # <<>> /\ u[i] = key
        BY <2>1, <2>4, <3>2
      <4> QED BY <2>2, <4>1
    <3>3. CASE i = n + 2
      <4>1. u[i] = val
        BY <2>4, <3>3
      <4> QED BY <2>2, <4>1
    <3>4. i \in 2..n \/ i = n + 1 \/ i = n + 2
      BY <2>1, <2>4
    <3> QED BY <3>1, <3>2, <3>3, <3>4
  <2>8. \A i \in Keys(u) : u[i].what \in E /\ i + 1 \in DOMAIN u /\ u[i + 1].says = u[i].what
    <3> SUFFICES ASSUME NEW i \in Keys(u)
                 PROVE  u[i].what \in E /\ i + 1 \in DOMAIN u /\ u[i + 1].says = u[i].what
      OBVIOUS
    <3>1. CASE i = n + 1
      <4>1. u[i] = key /\ u[i + 1] = val /\ i + 1 \in DOMAIN u
        BY <2>1, <2>4, <3>1
      <4> QED BY <2>2, <2>3, <4>1
    <3>2. CASE i \in Keys(t)
      <4>1. /\ i \in 1..n /\ t[i].what \in D /\ i + 1 \in 1..n
            /\ t[i + 1].says = t[i].what
        BY <2>1, <3>2 DEF Readable, Keys
      <4> QED BY <2>1, <2>3, <2>4, <4>1
    <3> QED BY <2>5, <3>1, <3>2
  <2>9. \A j \in E : \E i \in Keys(u) : u[i].what = j
    <3> SUFFICES ASSUME NEW j \in E PROVE \E i \in Keys(u) : u[i].what = j
      OBVIOUS
    <3>1. CASE j = k
      BY <2>2, <2>4, <2>5, <3>1
    <3>2. CASE j \in D
      <4>1. PICK i \in Keys(t) : t[i].what = j
        BY <3>2 DEF Readable
      <4>2. i \in 1..n
        BY <2>1 DEF Keys
      <4> QED BY <2>4, <2>5, <4>1, <4>2
    <3> QED BY <2>3, <3>1, <3>2
  <2>10. Readable(u, E)
    BY <2>3, <2>4, <2>6, <2>7, <2>8, <2>9 DEF Readable
  <2>11. t # <<>> => u[2] = t[2]
    <3>1. t # <<>> => n >= 2
      BY DEF Readable
    <3> QED BY <2>1, <2>4, <3>1
  <2> QED BY <2>10, <2>11 DEF u, E
<1> QED BY <1>1, <1>2

\* A whole document that says the fields of D
Says(u, D) ==
  /\ Braced(u)
  /\ {u[i].what : i \in Keys(u)} \ {"none"} = D
  /\ \A i \in Keys(u) : u[i].what # "none" => u[i + 1].says = u[i].what

\* The closing brace
LEMMA CloseReadable ==
  ASSUME NEW t, NEW D, Readable(t, D), NEW u, u = t \o <<Close>>
  PROVE  u \in Seq(Fragment) /\ (D # {} => Says(u, D) /\ u[2] = t[2])
<1> DEFINE n == Len(t)
<1>1. t \in Seq(Fragment) /\ n \in Nat /\ DOMAIN t = 1..n
  <2>1. t \in Seq(Fragment)
    BY DEF Readable
  <2> QED BY <2>1, SequenceTypes
<1>2. Close \in Fragment /\ Close.says = "}"
  BY DEF Close, Fragment
<1>3. /\ u \in Seq(Fragment) /\ Len(u) = n + 1 /\ DOMAIN u = 1..(n + 1)
      /\ u[n + 1] = Close /\ \A i \in 1..n : u[i] = t[i]
  <2>1. Close \in Fragment
    BY <1>2
  <2> QED BY <1>1, <2>1, OneMore
<1>4. ASSUME D # {} PROVE Says(u, D) /\ u[2] = t[2]
  <2>1. n >= 2 /\ t[1].says = "{" /\ \A i \in 2..n : t[i].says # "{"
    BY <1>4 DEF Readable
  <2>2. /\ u[n + 1].says = "}" /\ u[Len(u)].says = "}"
        /\ \A i \in 1..n : u[i].says = t[i].says
    BY <1>2, <1>3
  <2>3. DOMAIN u = (1..n) \cup {n + 1} /\ DOMAIN t = 1..n
    BY <1>1, <1>3
  <2>4. Keys(u) = Keys(t)
    BY <2>2, <2>3 DEF Keys
  <2>5. Braced(u)
    <3>1. DOMAIN u = {1} \cup (2..n) \cup {n + 1} /\ 1 \in 1..n /\ 2..n \subseteq 1..n
      <4>1. n \in Nat /\ n >= 2 /\ DOMAIN u = (1..n) \cup {n + 1}
        BY <1>1, <2>1, <2>3
      <4> HIDE DEF n
      <4> QED BY <4>1
    <3>2. u[1].says = "{" /\ (\A i \in 2..n : u[i].says # "{") /\ u[n + 1].says # "{"
      BY <2>1, <2>2, <3>1
    <3>3. {i \in DOMAIN u : u[i].says = "{"} = {1}
      BY <3>1, <3>2
    <3> QED BY <2>2, <3>3 DEF Braced
  <2>6. u[2] = t[2]
    <3>1. 2 \in 1..n
      <4>1. n \in Nat /\ n >= 2
        BY <1>1, <2>1
      <4> HIDE DEF n
      <4> QED BY <4>1
    <3> QED BY <1>3, <3>1
  <2>7. \A i \in Keys(u) : /\ i \in 1..n /\ i + 1 \in 1..n /\ u[i].what = t[i].what
                           /\ u[i].what \in D /\ u[i + 1].says = u[i].what
    <3> SUFFICES ASSUME NEW i \in Keys(t)
                 PROVE  /\ i \in 1..n /\ i + 1 \in 1..n /\ u[i].what = t[i].what
                        /\ u[i].what \in D /\ u[i + 1].says = u[i].what
      BY <2>4
    <3>1. i \in 1..n
      BY <1>1 DEF Keys
    <3>2. i + 1 \in 1..n /\ t[i].what \in D /\ t[i + 1].says = t[i].what
      BY <1>1 DEF Readable
    <3> QED BY <1>3, <3>1, <3>2
  <2>8. "none" \notin D
    BY DEF Readable, Fields
  <2>9. \A k \in D : \E i \in Keys(u) : u[i].what = k
    <3> SUFFICES ASSUME NEW k \in D PROVE \E i \in Keys(u) : u[i].what = k
      OBVIOUS
    <3>1. PICK i \in Keys(t) : t[i].what = k
      BY DEF Readable
    <3> QED BY <2>4, <2>7, <3>1
  <2>10. {u[i].what : i \in Keys(u)} \ {"none"} = D
    BY <2>7, <2>8, <2>9
  <2> QED BY <2>5, <2>6, <2>7, <2>10 DEF Says
<1> QED BY <1>3, <1>4

LEMMA NothingReadable == Readable(<<>>, {})
BY DEF Readable, Keys

\* A field behind others
LEMMA More ==
  ASSUME NEW t, NEW D, Readable(t, D), D # {}, NEW fields, Printable(fields), NEW k \in Fields,
         NEW u, u = With(t, k, fields), NEW E, E = D \cup ({k} \cap DOMAIN fields)
  PROVE  Readable(u, E) /\ E # {} /\ u[2] = t[2]
<1>1. t # <<>>
  BY DEF Readable
<1> QED BY <1>1, WithReadable

LEMMA FieldNames ==
  /\ \A type \in DOMAIN FieldsOf : FieldsOf[type] \subseteq Fields
  /\ {"status", "statusDetails", "executionNumber", "expectedVersion",
      "includeJobExecutionState", "includeJobDocument", "clientToken"} \subseteq Fields
BY DEF Fields, FieldsOf

\* The document of a request that passes the checks says what it asks for.
LEMMA UpdateUnderstood ==
  ASSUME NEW r \in Requests, Checked(r), r.type = "UPDATE"
  PROVE  Document(r) \in Seq(Fragment) /\ Understood(r, Document(r))
<1> DEFINE f  == r.fields
           g  == [f EXCEPT !["status"] = StatusString(@)]
           t1 == With(<<>>, "status", g)
           t2 == With(t1, "statusDetails", f)
           t3 == With(t2, "executionNumber", f)
           t4 == With(t3, "expectedVersion", f)
           t5 == With(t4, "includeJobExecutionState", f)
           t6 == With(t5, "includeJobDocument", f)
           t7 == With(t6, "clientToken", f)
           F  == DOMAIN f
           D2 == {"status"} \cup ({"statusDetails"} \cap F)
           D3 == D2 \cup ({"executionNumber"} \cap F)
           D4 == D3 \cup ({"expectedVersion"} \cap F)
           D5 == D4 \cup ({"includeJobExecutionState"} \cap F)
           D6 == D5 \cup ({"includeJobDocument"} \cap F)
           D7 == D6 \cup ({"clientToken"} \cap F)
           u  == t7 \o <<Close>>
<1>1. Document(r) = u
  BY DEF Document, UpdateDocument
<1>2. /\ F \subseteq Fields /\ "status" \in F
      /\ \A k \in F : f[k] \in ValueOf(k)
  BY JobsAssumption, FieldNames
<1>3. StatusString(f.status) # Absent
  BY DEF Checked
<1>4. f["status"] \in Status /\ StatusString(f["status"]) = f["status"] /\ f.status = f["status"]
  BY <1>3 DEF StatusString
<1>5. /\ DOMAIN g = F /\ g["status"] = f["status"]
      /\ \A k \in F : k # "status" => g[k] = f[k]
  BY <1>2, <1>4
<1>6. Printable(f) /\ Printable(g)
  BY <1>2, <1>4, <1>5 DEF Printable
<1>7. Readable(t1, {"status"}) /\ t1[2] = Value("status", f["status"])
  <2>1. {} \cup ({"status"} \cap DOMAIN g) = {"status"}
    BY <1>2, <1>5
  <2>2. Readable(<<>>, {}) /\ "status" \in Fields /\ "status" \in DOMAIN g
    BY <1>2, <1>5, NothingReadable, FieldNames
  <2>3. Readable(t1, {} \cup ({"status"} \cap DOMAIN g))
    BY <1>6, <2>2, WithReadable
  <2>4. t1[2] = Value("status", g["status"])
    BY <2>2, FirstWith
  <2> QED BY <1>5, <2>1, <2>3, <2>4
<1>8. D7 = F
  BY <1>2 DEF Fields
<1>a. t2 = With(t1, "statusDetails", f) /\ D2 = {"status"} \cup ({"statusDetails"} \cap F)
  OBVIOUS
<1>b. t3 = With(t2, "executionNumber", f) /\ D3 = D2 \cup ({"executionNumber"} \cap F)
  OBVIOUS
<1>c. t4 = With(t3, "expectedVersion", f) /\ D4 = D3 \cup ({"expectedVersion"} \cap F)
  OBVIOUS
<1>d. t5 = With(t4, "includeJobExecutionState", f) /\ D5 = D4 \cup ({"includeJobExecutionState"} \cap F)
  OBVIOUS
<1>e. t6 = With(t5, "includeJobDocument", f) /\ D6 = D5 \cup ({"includeJobDocument"} \cap F)
  OBVIOUS
<1>f. t7 = With(t6, "clientToken", f) /\ D7 = D6 \cup ({"clientToken"} \cap F)
  OBVIOUS
<1> HIDE DEF f, g, t1, t2, t3, t4, t5, t6, t7, D2, D3, D4, D5, D6, D7
<1>g. Readable(t2, D2) /\ D2 # {} /\ t2[2] = t1[2]
  BY <1>6, <1>7, <1>a, FieldNames, More
<1>h. Readable(t3, D3) /\ D3 # {} /\ t3[2] = t2[2]
  BY <1>6, <1>g, <1>b, FieldNames, More
<1>i. Readable(t4, D4) /\ D4 # {} /\ t4[2] = t3[2]
  BY <1>6, <1>h, <1>c, FieldNames, More
<1>j. Readable(t5, D5) /\ D5 # {} /\ t5[2] = t4[2]
  BY <1>6, <1>i, <1>d, FieldNames, More
<1>k. Readable(t6, D6) /\ D6 # {} /\ t6[2] = t5[2]
  BY <1>6, <1>j, <1>e, FieldNames, More
<1>l. Readable(t7, D7) /\ D7 # {} /\ t7[2] = t6[2]
  BY <1>6, <1>k, <1>f, FieldNames, More
<1>m. u \in Seq(Fragment) /\ Says(u, F) /\ u[2] = t7[2]
  BY <1>8, <1>l, CloseReadable
<1> HIDE DEF u, F
<1>n. u[2].what = f["status"] /\ StatusOf(u[2].what) = r.fields.status
  <2>1. u[2] = Value("status", f["status"])
    BY <1>7, <1>g, <1>h, <1>i, <1>j, <1>k, <1>l, <1>m
  <2>2. u[2].what = f["status"]
    BY <2>1 DEF Value
  <2>3. f["status"] # Absent
    BY <1>4, JobsAssumption
  <2>4. StatusOf(u[2].what) = f["status"]
    BY <1>4, <2>2, <2>3 DEF StatusOf
  <2> QED BY <1>4, <2>2, <2>4 DEF f
<1> QED BY <1>1, <1>m, <1>n DEF Understood, Says, F, f

\* The other documents: their fields in the order of the code
LEMMA OneUnderstood ==
  ASSUME NEW r \in Requests, Checked(r), ~Empty(r), r.type = "GET_PENDING"
  PROVE  Document(r) \in Seq(Fragment) /\ Understood(r, Document(r))
<1> DEFINE f == r.fields
           t == With(<<>>, "clientToken", f)
           u == t \o <<Close>>
<1>1. Document(r) = u
  BY DEF Document, TokenDocument
<1>2. /\ DOMAIN f = {"clientToken"}
      /\ \A k \in DOMAIN f : f[k] \in ValueOf(k)
  BY JobsAssumption DEF Empty, FieldsOf
<1>3. Printable(f)
  BY <1>2 DEF Printable
<1>4. {} \cup ({"clientToken"} \cap DOMAIN f) = {"clientToken"}
  BY <1>2
<1>5. Readable(t, {"clientToken"})
  BY <1>3, <1>4, NothingReadable, WithReadable, FieldNames
<1> HIDE DEF t
<1>6. u \in Seq(Fragment) /\ Says(u, {"clientToken"})
  BY <1>5, CloseReadable
<1> HIDE DEF u
<1>7. DOMAIN r.fields = {"clientToken"} /\ r.type # "UPDATE"
  BY <1>2
<1> QED BY <1>1, <1>6, <1>7 DEF Understood, Says

LEMMA DescribeUnderstood ==
  ASSUME NEW r \in Requests, r.type = "DESCRIBE"
  PROVE  /\ Document(r) \in Seq(Fragment)
         /\ DOMAIN r.fields # {} => Understood(r, Document(r))
<1> DEFINE f  == r.fields
           F  == DOMAIN f
           t1 == With(<<>>, "clientToken", f)
           t2 == With(t1, "executionNumber", f)
           t3 == With(t2, "includeJobDocument", f)
           D1 == {} \cup ({"clientToken"} \cap F)
           D2 == D1 \cup ({"executionNumber"} \cap F)
           D3 == D2 \cup ({"includeJobDocument"} \cap F)
           u  == t3 \o <<Close>>
<1>1. Document(r) = u
  BY DEF Document, DescribeDocument
<1>2. /\ F \subseteq {"clientToken", "executionNumber", "includeJobDocument"}
      /\ \A k \in F : f[k] \in ValueOf(k) /\ k # "status"
  BY JobsAssumption DEF FieldsOf
<1>3. Printable(f)
  BY <1>2 DEF Printable
<1>4. D3 = F
  BY <1>2
<1>5. Readable(t1, D1)
  BY <1>3, NothingReadable, WithReadable, FieldNames
<1> HIDE DEF t1, D1
<1>6. Readable(t2, D2)
  BY <1>3, <1>5, WithReadable, FieldNames
<1> HIDE DEF t2, D2
<1>7. Readable(t3, F)
  BY <1>3, <1>4, <1>6, WithReadable, FieldNames
<1> HIDE DEF t3, D3, F
<1>8. u \in Seq(Fragment) /\ (F # {} => Says(u, F))
  BY <1>7, CloseReadable
<1> HIDE DEF u
<1> QED BY <1>1, <1>8 DEF Understood, Says, F

LEMMA StartNextUnderstood ==
  ASSUME NEW r \in Requests, r.type = "START_NEXT"
  PROVE  Document(r) \in Seq(Fragment) /\ Understood(r, Document(r))
<1> DEFINE f  == r.fields
           F  == DOMAIN f
           t1 == With(<<>>, "statusDetails", f)
           t2 == With(t1, "clientToken", f)
           D1 == {} \cup ({"statusDetails"} \cap F)
           D2 == D1 \cup ({"clientToken"} \cap F)
           u  == t2 \o <<Close>>
<1>1. CASE F = {}
  <2> DEFINE d == <<Open>> \o <<Close>>
  <2>1. Document(r) = d
    BY <1>1 DEF Document, StartNextDocument
  <2>2. /\ Open \in Fragment /\ Open.says = "{" /\ Open.what = "none"
        /\ Close \in Fragment /\ Close.says = "}"
    BY DEF Open, Close, Fragment
  <2>3. /\ d \in Seq(Fragment) /\ DOMAIN d = {1, 2} /\ Len(d) = 2
        /\ d[1] = Open /\ d[2] = Close
    <3>1. <<Open>> \in Seq(Fragment)
      <4>1. Open \in Fragment
        BY <2>2
      <4> QED BY <4>1
    <3>2. Len(<<Open>>) = 1 /\ <<Open>>[1] = Open
      OBVIOUS
    <3>3. 1..2 = {1, 2}
      OBVIOUS
    <3>4. Close \in Fragment /\ d = <<Open>> \o <<Close>>
      BY <2>2
    <3> HIDE DEF d
    <3> QED BY <3>1, <3>2, <3>3, <3>4, OneMore
  <2> HIDE DEF d
  <2>4. Keys(d) = {1} /\ Braced(d)
    BY <2>2, <2>3 DEF Keys, Braced
  <2>5. {d[i].what : i \in Keys(d)} \ {"none"} = {}
    BY <2>2, <2>3, <2>4
  <2>6. \A i \in Keys(d) : d[i].what = "none"
    BY <2>2, <2>3, <2>4
  <2> QED BY <1>1, <2>1, <2>3, <2>4, <2>5, <2>6 DEF Understood
<1>2. CASE F # {}
  <2>1. Document(r) = u
    BY <1>2 DEF Document, StartNextDocument
  <2>2. /\ F \subseteq {"clientToken", "statusDetails"}
        /\ \A k \in F : f[k] \in ValueOf(k) /\ k # "status"
    BY JobsAssumption DEF FieldsOf
  <2>3. Printable(f)
    BY <2>2 DEF Printable
  <2>4. D2 = F
    BY <2>2
  <2>5. Readable(t1, D1)
    BY <2>3, NothingReadable, WithReadable, FieldNames
  <2> HIDE DEF t1, D1
  <2>6. Readable(t2, F)
    BY <2>3, <2>4, <2>5, WithReadable, FieldNames
  <2> HIDE DEF t2, D2, F
  <2>7. u \in Seq(Fragment) /\ (F # {} => Says(u, F))
    BY <2>6, CloseReadable
  <2> HIDE DEF u
  <2> QED BY <1>2, <2>1, <2>7 DEF Understood, Says, F
<1> QED BY <1>1, <1>2

LEMMA DocumentUnderstood ==
  ASSUME NEW r \in Requests, Checked(r), ~Empty(r)
  PROVE  /\ Document(r) \in Seq(Fragment)
         /\ \/ Understood(r, Document(r))
            \/ r.type = "DESCRIBE" /\ DOMAIN r.fields = {}
<1>1. r.type \in {"UPDATE", "DESCRIBE", "START_NEXT", "GET_PENDING"}
  BY JobsAssumption DEF FieldsOf
<1> QED BY <1>1, UpdateUnderstood, OneUnderstood, DescribeUnderstood, StartNextUnderstood

-----------------------------------------------------------------------------
(* Printing and publishing.                                                *)

\* Moving the first fragment that is left behind those written keeps the document.
LEMMA MoveHead ==
  ASSUME NEW S, NEW s \in Seq(S), NEW t \in Seq(S), t # <<>>
  PROVE  /\ Head(t) \in S /\ Tail(t) \in Seq(S)
         /\ Append(s, Head(t)) \in Seq(S)
         /\ Append(s, Head(t)) \o Tail(t) = s \o t
<1>1. Head(t) \in S /\ Tail(t) \in Seq(S) /\ Append(s, Head(t)) \in Seq(S)
  OBVIOUS
<1>2. Append(s, Head(t)) \o Tail(t) = s \o t
  OBVIOUS
<1> QED BY <1>1, <1>2

LEMMA InitIInv == Init => IInv
BY DEF Init, IInv, Progress, Complete, NoMessage

\* A call that passes the checks starts with the whole document to print.
LEMMA CallsIInv == IInv /\ Calls => IInv'
<1> SUFFICES ASSUME IInv, Calls PROVE IInv'
  OBVIOUS
<1>1. PICK r \in Requests, z \in Sizes :
        /\ Checked(r) /\ ~Empty(r) /\ (r.null => z = 0)
        /\ call' = [type |-> r.type, request |-> r, size |-> z]
        /\ todo' = Document(r) /\ total' = 0 /\ text' = <<>>
        /\ room' = IF r.null THEN 0 ELSE z
        /\ gone' = r.null
  BY DEF Calls
<1>2. Document(r) \in Seq(Fragment) /\ z \in Nat /\ r.null \in BOOLEAN
  BY <1>1, DocumentUnderstood, JobsAssumption
<1>3. <<>> \o Document(r) = Document(r) /\ <<>> \in Seq(Fragment)
  BY <1>2
<1>4. Progress'
  <2>1. /\ Document(call'.request) = Document(r) /\ call'.size = z
        /\ call' # NoCall /\ call'.type = call'.request.type
        /\ call'.request \in Requests /\ Checked(call'.request) /\ ~Empty(call'.request)
    BY <1>1, JobsAssumption DEF NoCall
  <2>2. text' = <<>> /\ todo' = Document(r) /\ text' \o todo' = Document(r)
    BY <1>1, <1>3
  <2>3. total' = 0 /\ room' \in Nat /\ gone' \in BOOLEAN /\ (~gone' => room' = z) /\ (gone' => z = 0)
    BY <1>1, <1>2
  <2>4. text' \in Seq(Fragment) /\ todo' \in Seq(Fragment)
    BY <1>2, <1>3, <2>2
  <2>5. /\ total' \in Nat /\ call'.size \in Nat /\ ~(total' > 0)
        /\ ~gone' => total' + room' = call'.size
        /\ gone' => total' >= call'.size
    <3>1. total' \in Nat /\ call'.size \in Nat /\ ~(total' > 0)
      BY <1>2, <2>1, <2>3
    <3>2. ASSUME room' = z PROVE total' + room' = call'.size
      BY <1>2, <2>1, <2>3, <3>2
    <3>3. ASSUME z = 0 PROVE total' >= call'.size
      BY <2>1, <2>3, <3>3
    <3> QED BY <2>3, <3>1, <3>2, <3>3, Zenon
  <2>6. text' \o todo' = Document(call'.request) /\ Document(call'.request) \in Seq(Fragment)
    BY <1>2, <2>1, <2>2
  <2> QED BY <2>1, <2>3, <2>4, <2>5, <2>6, Zenon DEF Progress
<1>5. Complete' /\ pc' = "print"
  BY DEF Calls, IInv, Complete
<1> QED BY <1>4, <1>5 DEF IInv

\* Printing a fragment
LEMMA PrintIInv == IInv /\ PrintFragment => IInv'
<1> SUFFICES ASSUME IInv, PrintFragment PROVE IInv'
  OBVIOUS
<1> DEFINE h == Head(todo)
<1>1. /\ pc = "print" /\ pc' = "print" /\ call' = call /\ sent' = sent /\ todo # <<>>
      /\ todo' = Tail(todo) /\ total' = total + h.len
  BY DEF PrintFragment
<1>2. Progress /\ Complete
  BY DEF IInv
<1>3. todo \in Seq(Fragment) /\ text \in Seq(Fragment)
  BY <1>1, <1>2 DEF Progress
<1>4. /\ h \in Fragment /\ Tail(todo) \in Seq(Fragment) /\ Append(text, h) \in Seq(Fragment)
      /\ Append(text, h) \o Tail(todo) = text \o todo
  BY <1>1, <1>3, MoveHead
<1>5. h.len \in Nat
  BY <1>4 DEF Fragment
<1> HIDE DEF h
<1>6. Progress'
  <2>1. CASE gone
    <3>1. room' = room /\ gone' = gone /\ text' = text
      BY <2>1 DEF PrintFragment
    <3> QED BY <1>1, <1>2, <1>4, <1>5, <2>1, <3>1 DEF Progress
  <2>2. CASE ~gone /\ room > h.len
    <3>1. room' = room - h.len /\ gone' = gone /\ text' = Append(text, h)
      BY <2>2 DEF PrintFragment, h
    <3>2. total \in Nat /\ room \in Nat /\ call.size \in Nat /\ total + room = call.size
      BY <1>1, <1>2, <2>2 DEF Progress
    <3>3. total' \in Nat /\ room' \in Nat /\ room' > 0 /\ total' + room' = call'.size
      BY <1>1, <1>5, <2>2, <3>1, <3>2
    <3>4. text' \in Seq(Fragment) /\ todo' \in Seq(Fragment) /\ text' \o todo' = text \o todo
      BY <1>1, <1>4, <3>1
    <3>5. /\ call # NoCall /\ call.type = call.request.type /\ call' = call
          /\ call.request \in Requests /\ Checked(call.request) /\ ~Empty(call.request)
          /\ Document(call.request) \in Seq(Fragment) /\ text \o todo = Document(call.request)
      BY <1>1, <1>2, <2>2 DEF Progress
    <3>6. ~gone' /\ gone' \in BOOLEAN /\ call'.size \in Nat
      BY <1>1, <1>2, <2>2, <3>1, <3>2 DEF Progress
    <3> HIDE <1>1
    <3> QED BY <3>3, <3>4, <3>5, <3>6 DEF Progress
  <2>3. CASE ~gone /\ ~(room > h.len)
    <3>1. room' = 0 /\ gone' = TRUE /\ text' = text
      BY <2>3 DEF PrintFragment, h
    <3> QED BY <1>1, <1>2, <1>4, <1>5, <2>3, <3>1 DEF Progress
  <2> QED BY <2>1, <2>2, <2>3
<1>7. Complete'
  BY <1>1, <1>2 DEF Complete
<1> QED BY <1>1, <1>6, <1>7 DEF IInv

\* A document is published if its length is below that of the buffer: then
\* nothing was left out.
LEMMA PublishesIInv == IInv /\ Publishes => IInv'
<1> SUFFICES ASSUME IInv, Publishes PROVE IInv'
  OBVIOUS
<1>1. pc = "print" /\ todo = <<>> /\ pc' = "idle" /\ Progress /\ Complete
  BY DEF Publishes, IInv
<1>2. Complete'
  <2>1. CASE total >= call.size
    BY <1>1, <2>1 DEF Publishes, Complete
  <2>2. CASE ~(total >= call.size)
    <3>1. ~gone /\ text \in Seq(Fragment) /\ text \o todo = Document(call.request)
      BY <1>1, <2>2 DEF Progress
    <3>2. text = Document(call.request)
      BY <1>1, <3>1
    <3>3. sent'.text = text /\ sent'.request = call.request /\ sent'.type = call.request.type
      BY <2>2 DEF Publishes, Send
    <3>4. call.request \in Requests /\ Checked(call.request) /\ ~Empty(call.request)
      BY <1>1 DEF Progress
    <3> QED BY <3>2, <3>3, <3>4 DEF Complete
  <2> QED BY <2>1, <2>2
<1> QED BY <1>1, <1>2 DEF IInv, Progress

\* The other steps print nothing.
LEMMA OthersIInv ==
  ASSUME IInv,
         \/ InitSubscribes \/ InitDescribes \/ OtherSubscribes \/ OtherUnsubscribes
         \/ CallsEmpty \/ AwsAnswers \/ AwsNotifies \/ Lost \/ Delivered \/ UNCHANGED vars
  PROVE  IInv'
<1>1. UNCHANGED <<pc, call, document>>
  BY DEF InitSubscribes, InitDescribes, OtherSubscribes, OtherUnsubscribes, CallsEmpty,
         AwsAnswers, AwsNotifies, Lost, Delivered, vars
<1>2. Progress' /\ pc' = pc
  BY <1>1 DEF IInv, Progress, document
<1>3. \/ UNCHANGED sent \/ sent' = NoMessage
      \/ \E r : Empty(r) /\ sent'.request = r /\ sent'.type = r.type
  <2>1. CASE InitDescribes
    BY <2>1 DEF InitDescribes, Send, DescribeNext, Empty
  <2>2. CASE CallsEmpty
    BY <2>2 DEF CallsEmpty, Send
  <2> QED BY <2>1, <2>2 DEF InitSubscribes, OtherSubscribes, OtherUnsubscribes,
            AwsAnswers, AwsNotifies, Lost, Delivered, vars
<1>4. Complete'
  BY <1>3 DEF IInv, Complete, Empty
<1> QED BY <1>2, <1>4 DEF IInv

LEMMA InductiveIInv == IInv /\ [Next]_vars => IInv'
BY CallsIInv, PrintIInv, PublishesIInv, OthersIInv DEF Next

LEMMA Invariance == Spec => []IInv
<1>1. Init => IInv
  BY InitIInv
<1>2. IInv /\ [Next]_vars => IInv'
  BY InductiveIInv
<1> QED BY <1>1, <1>2, PTL DEF Spec

\* The printing of a document never goes past the end of its buffer, whatever
\* the request and the size (_printToBuffer).
THEOREM StaysWithinBuffer == Spec => []WithinBuffer
<1>1. IInv => WithinBuffer
  BY DEF IInv, Progress, WithinBuffer
<1> QED BY <1>1, Invariance, PTL

\* What is published is the whole document, whatever the size of the buffer
\* (CHECK_GENERATE_STRING_RESULT).
THEOREM PublishesWhole == Spec => []Complete
<1>1. IInv => Complete
  BY DEF IInv
<1> QED BY <1>1, Invariance, PTL

\* A request that is published has the whole document, and AWS reads in it what
\* the caller asked for, whatever the fields and the size of the buffer.  Only the
\* description without any field has no opening brace.
THEOREM RequestsAreUnderstood == Spec => []WholeRequests
<1>1. IInv => WholeRequests
  BY DocumentUnderstood DEF IInv, Complete, WholeRequests
<1> QED BY <1>1, Invariance, PTL

-----------------------------------------------------------------------------
(* Types.                                                                  *)

LEMMA InitSubscriptionsType ==
  /\ Describing = 5
  /\ \A i \in 1..4 : InitSubscriptions[i] \in Subscription
<1>1. Describing = 5
  BY DEF Describing, InitSubscriptions
<1>2. {"NOTIFY_NEXT", "DESCRIBE", "UPDATE"} \subseteq TopicType
  BY DEF TopicType, Operation
<1>3. {"REQUEST", "WILDCARD", "ACCEPTED", "REJECTED"} \subseteq ReplyType
  BY DEF ReplyType
<1>4. {"$next", "+", NoJob} \subseteq JobId \cup {NoJob}
  BY DEF JobId
<1>5. \A type \in TopicType, reply \in ReplyType, job \in JobId \cup {NoJob} :
        [type |-> type, reply |-> reply, job |-> job, firmware |-> TRUE] \in Subscription
  BY DEF Subscription
<1>6. /\ InitSubscriptions[1] \in Subscription /\ InitSubscriptions[2] \in Subscription
      /\ InitSubscriptions[3] \in Subscription /\ InitSubscriptions[4] \in Subscription
  BY <1>2, <1>3, <1>4, <1>5 DEF InitSubscriptions
<1>7. \A i \in 1..4 : i = 1 \/ i = 2 \/ i = 3 \/ i = 4
  OBVIOUS
<1> QED BY <1>1, <1>6, <1>7, Zenon

\* Subscriptions are those of the firmware and of the application.
LEMMA SubscriptionsType ==
  ASSUME TypeOK, InitSubscribes \/ OtherSubscribes \/ OtherUnsubscribes
  PROVE  subs' \subseteq Subscription /\ step' \in 1..7
<1>1. CASE InitSubscribes
  <2>1. step \in 1..4
    BY <1>1, InitSubscriptionsType DEF InitSubscribes, TypeOK
  <2>2. CASE Subscribe(InitSubscriptions[step]) /\ step' = step + 1
    BY <2>1, <2>2, InitSubscriptionsType DEF Subscribe, TypeOK
  <2>3. CASE step' = InitFailed /\ UNCHANGED subs
    BY <2>3, InitSubscriptionsType DEF InitFailed, InitDone, TypeOK
  <2> QED BY <1>1, <2>2, <2>3 DEF InitSubscribes
<1>2. CASE OtherSubscribes
  <2>1. PICK o \in Others :
          Subscribe([type |-> o.type, reply |-> o.reply, job |-> o.job, firmware |-> FALSE])
    BY <1>2 DEF OtherSubscribes
  <2>2. o.type \in TopicType /\ o.reply \in ReplyType /\ o.job \in JobId \cup {NoJob}
    BY JobsAssumption
  <2>3. [type |-> o.type, reply |-> o.reply, job |-> o.job, firmware |-> FALSE] \in Subscription
    BY <2>2 DEF Subscription
  <2> QED BY <1>2, <2>1, <2>3 DEF Subscribe, OtherSubscribes, TypeOK
<1>3. CASE OtherUnsubscribes
  BY <1>3 DEF OtherUnsubscribes, TypeOK
<1> QED BY <1>1, <1>2, <1>3

\* What is sent is a request of a caller or of sys_aws_jobs_init.
LEMMA MessagesType ==
  ASSUME TypeOK, IInv, [Next]_vars
  PROVE  sent'.type \in {"none"} \cup Answered /\ answer'.type \in {"none"} \cup Answered
<1> DEFINE A == {"none"} \cup Answered
<1> SUFFICES sent'.type \in A /\ answer'.type \in A
  OBVIOUS
<1>1. "none" \in A /\ NoMessage.type = "none" /\ sent.type \in A /\ answer.type \in A
  BY DEF NoMessage, TypeOK
<1>2. \A r \in Requests : r.type \in A
  BY JobsAssumption DEF Answered, FieldsOf
<1>3. DescribeNext.type \in A
  BY DEF DescribeNext, Answered
<1>4. "NOTIFY" \in A /\ "NOTIFY_NEXT" \in A
  BY DEF Answered
<1> HIDE DEF A
<1>5. CASE InitDescribes
  BY <1>1, <1>3, <1>5 DEF InitDescribes, Send
<1>6. CASE CallsEmpty
  BY <1>1, <1>2, <1>6 DEF CallsEmpty, Send
<1>7. CASE Publishes
  <2>1. call # NoCall
    BY <1>7 DEF IInv, Progress, Publishes
  <2>2. PICK r \in Requests : call.request = r
    BY <2>1 DEF TypeOK
  <2> QED BY <1>1, <1>2, <1>7, <2>2 DEF Publishes, Send
<1>8. CASE AwsAnswers
  <2>1. answer'.type = sent.type /\ sent' = NoMessage
    BY <1>8 DEF AwsAnswers
  <2> QED BY <1>1, <2>1
<1>9. CASE AwsNotifies
  BY <1>1, <1>4, <1>9 DEF AwsNotifies
<1>10. CASE InitSubscribes \/ OtherSubscribes \/ OtherUnsubscribes \/ Calls \/ PrintFragment
            \/ Lost \/ Delivered \/ UNCHANGED vars
  BY <1>1, <1>10 DEF InitSubscribes, OtherSubscribes, OtherUnsubscribes, Calls, PrintFragment,
                     Lost, Delivered, vars
<1> QED BY <1>5, <1>6, <1>7, <1>8, <1>9, <1>10 DEF Next

\* The request being made and the state of its serializer
LEMMA DocumentType ==
  ASSUME TypeOK, IInv, [Next]_vars
  PROVE  /\ pc' \in {"idle", "print"}
         /\ call' = NoCall \/ (call'.size \in Sizes /\ \E r \in Requests : call'.request = r)
         /\ todo' \in Seq(Fragment) /\ text' \in Seq(Fragment)
         /\ total' \in Nat /\ room' \in Nat /\ gone' \in BOOLEAN
<1>1. IInv'
  BY InductiveIInv
<1>2. pc' \in {"idle", "print"} /\ Progress'
  BY <1>1 DEF IInv
<1>3. CASE Calls
  <2>1. call'.size \in Sizes /\ \E r \in Requests : call'.request = r
    BY <1>3 DEF Calls
  <2>2. pc' = "print"
    BY <1>3 DEF Calls
  <2> QED BY <1>2, <2>1, <2>2 DEF Progress
<1>4. CASE PrintFragment
  <2>1. pc' = "print" /\ call' = call
    BY <1>4 DEF PrintFragment
  <2> QED BY <1>2, <2>1 DEF Progress, TypeOK
<1>5. CASE Publishes
  BY <1>2, <1>5 DEF Publishes
<1>6. CASE UNCHANGED <<pc, call, document>>
  BY <1>6 DEF document, TypeOK
<1>7. \/ Calls \/ PrintFragment \/ Publishes \/ UNCHANGED <<pc, call, document>>
  BY DEF Next, vars, InitSubscribes, InitDescribes, OtherSubscribes, OtherUnsubscribes,
         CallsEmpty, AwsAnswers, AwsNotifies, Lost, Delivered
<1> QED BY <1>3, <1>4, <1>5, <1>6, <1>7

\* Every variable of the module has its type: TypeOK is inductive with IInv.
THEOREM TypeCorrect == Spec => []TypeOK
<1>1. Init => TypeOK
  BY DEF Init, TypeOK, NoMessage
<1>2. TypeOK /\ IInv /\ [Next]_vars => TypeOK'
  <2> SUFFICES ASSUME TypeOK, IInv, [Next]_vars PROVE TypeOK'
    OBVIOUS
  <2>1. subs' \subseteq Subscription /\ step' \in 1..7
    <3>1. CASE InitSubscribes \/ OtherSubscribes \/ OtherUnsubscribes
      BY <3>1, SubscriptionsType
    <3>2. CASE InitDescribes
      <4>1. step' = InitDone \/ step' = InitFailed
        BY <3>2 DEF InitDescribes
      <4> QED BY <3>2, <4>1, InitSubscriptionsType DEF InitDescribes, InitDone, InitFailed, TypeOK
    <3>3. CASE UNCHANGED <<subs, step>>
      BY <3>3 DEF TypeOK
    <3>4. \/ InitSubscribes \/ OtherSubscribes \/ OtherUnsubscribes \/ InitDescribes
          \/ UNCHANGED <<subs, step>>
      BY DEF Next, vars, CallsEmpty, Calls, PrintFragment, Publishes, AwsAnswers, AwsNotifies,
             Lost, Delivered
    <3> QED BY <3>1, <3>2, <3>3, <3>4
  <2> QED BY <2>1, MessagesType, DocumentType DEF TypeOK
<1> QED BY <1>1, <1>2, Invariance, PTL DEF Spec
-----------------------------------------------------------------------------
(* Topics.  Behind the levels that all topics have come one, two or three. *)

Words == JobId \cup {"$aws", "/", "#", "things", "thing", "jobs", "accepted", "rejected"}
               \cup {Operation[type] : type \in TopicType}

\* What stands for one level in a filter and what is one in a topic
Level == Words \ {"/", "#"}

OfThing(t) == t \in Seq(Words) /\ Len(t) >= 8 /\ \A i \in 1..8 : t[i] = Base[i]

Short(t, a)       == OfThing(t) /\ Len(t) = 9 /\ t[9] = a
Middle(t, a, b)   == OfThing(t) /\ Len(t) = 11 /\ t[9] = a /\ t[10] = "/" /\ t[11] = b
Long(t, a, b, c)  == /\ OfThing(t) /\ Len(t) = 13
                     /\ t[9] = a /\ t[10] = "/" /\ t[11] = b /\ t[12] = "/" /\ t[13] = c

LEMMA BaseTypes ==
  /\ Base \in Seq(Words) /\ Len(Base) = 8
  /\ \A i \in 1..8 : Base[i] \notin {"+", "#"}
<1>1. {"$aws", "/", "things", "thing", "jobs"} \subseteq Words
  BY DEF Words
<1>2. Base \in Seq(Words)
  BY <1>1 DEF Base
<1>3. Len(Base) = 8
  BY DEF Base
<1>4. \A i \in 1..8 : Base[i] \notin {"+", "#"}
  <2>1. \A i \in 1..8 : i = 1 \/ i = 2 \/ i = 3 \/ i = 4 \/ i = 5 \/ i = 6 \/ i = 7 \/ i = 8
    OBVIOUS
  <2>2. /\ Base[1] = "$aws" /\ Base[2] = "/" /\ Base[3] = "things" /\ Base[4] = "/"
        /\ Base[5] = "thing" /\ Base[6] = "/" /\ Base[7] = "jobs" /\ Base[8] = "/"
    BY DEF Base
  <2> QED BY <2>1, <2>2
<1> QED BY <1>2, <1>3, <1>4

LEMMA LevelTypes ==
  /\ JobId \subseteq Level /\ {"+", "accepted", "rejected"} \subseteq Level
  /\ \A type \in TopicType : Operation[type] \in Level
  /\ Level \subseteq Words
<1>1. JobId \subseteq Level
  BY JobAssumption DEF Level, Words
<1>2. {"+", "accepted", "rejected"} \subseteq Level
  BY DEF Level, Words, JobId
<1>3. ASSUME NEW type \in TopicType PROVE Operation[type] \in Level
  <2>1. Operation[type] \in Words
    BY DEF Words
  <2>2. Operation[type] \notin {"/", "#"}
    BY DEF TopicType, Operation
  <2> QED BY <2>1, <2>2 DEF Level
<1> QED BY <1>1, <1>2, <1>3 DEF Level

\* A level behind the common ones, with its separator
LEMMA Extended ==
  ASSUME NEW t, OfThing(t), NEW b \in Words
  PROVE  /\ OfThing(t \o <<"/", b>>) /\ Len(t \o <<"/", b>>) = Len(t) + 2
         /\ (t \o <<"/", b>>)[Len(t) + 1] = "/" /\ (t \o <<"/", b>>)[Len(t) + 2] = b
         /\ \A i \in 1..Len(t) : (t \o <<"/", b>>)[i] = t[i]
<1>1. t \in Seq(Words) /\ Len(t) \in Nat /\ Len(t) >= 8 /\ \A i \in 1..8 : t[i] = Base[i]
  BY DEF OfThing
<1>2. \A s \in Words :
        /\ t \o <<s, b>> \in Seq(Words) /\ Len(t \o <<s, b>>) = Len(t) + 2
        /\ (t \o <<s, b>>)[Len(t) + 1] = s /\ (t \o <<s, b>>)[Len(t) + 2] = b
        /\ \A i \in 1..Len(t) : (t \o <<s, b>>)[i] = t[i]
  BY <1>1
<1>3. "/" \in Words
  BY DEF Words
<1>4. /\ t \o <<"/", b>> \in Seq(Words) /\ Len(t \o <<"/", b>>) = Len(t) + 2
      /\ (t \o <<"/", b>>)[Len(t) + 1] = "/" /\ (t \o <<"/", b>>)[Len(t) + 2] = b
      /\ \A i \in 1..Len(t) : (t \o <<"/", b>>)[i] = t[i]
  BY <1>2, <1>3, Zenon
<1>5. ASSUME NEW u, u \in Seq(Words), Len(u) = Len(t) + 2, \A i \in 1..Len(t) : u[i] = t[i]
      PROVE  OfThing(u)
  BY <1>1, <1>5 DEF OfThing
<1> QED BY <1>4, <1>5, Zenon

LEMMA ShortIs ==
  ASSUME NEW a \in Words
  PROVE  Short(Base \o <<a>>, a)
<1>1. Base \in Seq(Words)
  BY BaseTypes
<1>2. /\ Base \o <<a>> \in Seq(Words) /\ Len(Base \o <<a>>) = Len(Base) + 1
      /\ (Base \o <<a>>)[Len(Base) + 1] = a
      /\ \A i \in 1..Len(Base) : (Base \o <<a>>)[i] = Base[i]
  BY <1>1
<1>3. ASSUME NEW u, u \in Seq(Words), Len(u) = Len(Base) + 1, u[Len(Base) + 1] = a,
             \A i \in 1..Len(Base) : u[i] = Base[i]
      PROVE  Short(u, a)
  BY <1>3, BaseTypes DEF Short, OfThing
<1> QED BY <1>2, <1>3, Zenon

LEMMA MiddleIs ==
  ASSUME NEW t, NEW a, Short(t, a), NEW b \in Words
  PROVE  Middle(t \o <<"/", b>>, a, b)
<1>1. OfThing(t) /\ Len(t) = 9 /\ t[9] = a
  BY DEF Short
<1>2. ASSUME NEW u, OfThing(u), Len(u) = Len(t) + 2, u[Len(t) + 1] = "/", u[Len(t) + 2] = b,
             \A i \in 1..Len(t) : u[i] = t[i]
      PROVE  Middle(u, a, b)
  BY <1>1, <1>2 DEF Middle
<1> QED BY <1>1, <1>2, Extended, Zenon

LEMMA LongIs ==
  ASSUME NEW t, NEW a, NEW b, Middle(t, a, b), NEW c \in Words
  PROVE  Long(t \o <<"/", c>>, a, b, c)
<1>1. OfThing(t) /\ Len(t) = 11 /\ t[9] = a /\ t[10] = "/" /\ t[11] = b
  BY DEF Middle
<1>2. ASSUME NEW u, OfThing(u), Len(u) = Len(t) + 2, u[Len(t) + 1] = "/", u[Len(t) + 2] = c,
             \A i \in 1..Len(t) : u[i] = t[i]
      PROVE  Long(u, a, b, c)
  BY <1>1, <1>2 DEF Long
<1> QED BY <1>1, <1>2, Extended, Zenon

\* Topics of the same number of levels match level by level.
LEMMA ShortTakes ==
  ASSUME NEW f, NEW n, NEW a \in Level, NEW x \in Level, Short(f, a), Short(n, x)
  PROVE  Takes(f, n) <=> a \in {"+", x}
<1>1. /\ Len(f) = 9 /\ Len(n) = 9 /\ f[9] = a /\ n[9] = x
      /\ \A i \in 1..8 : f[i] = n[i] /\ f[i] # "#"
  BY BaseTypes DEF Short, OfThing
<1>2. \A i \in 1..9 : i \in 1..8 \/ i = 9
  OBVIOUS
<1>3. a \notin {"/", "#"} /\ x \notin {"/", "#"}
  BY DEF Level
<1>4. Takes(f, n) => a \in {"+", x}
  <2>1. f = n => a = x
    BY <1>1
  <2>2. Matched(f, n) => a \in {"+", x}
    BY <1>1, <1>3 DEF Matched
  <2> QED BY <2>1, <2>2 DEF Takes
<1>5. a \in {"+", x} => Matched(f, n)
  BY <1>1, <1>2, <1>3 DEF Matched
<1> QED BY <1>4, <1>5 DEF Takes

LEMMA MiddleTakes ==
  ASSUME NEW f, NEW n, NEW a \in Level, NEW b \in Level, NEW x \in Level, NEW y \in Level,
         Middle(f, a, b), Middle(n, x, y)
  PROVE  Takes(f, n) <=> a \in {"+", x} /\ b \in {"+", y}
<1>1. /\ Len(f) = 11 /\ Len(n) = 11
      /\ f[9] = a /\ n[9] = x /\ f[10] = "/" /\ n[10] = "/" /\ f[11] = b /\ n[11] = y
      /\ \A i \in 1..8 : f[i] = n[i] /\ f[i] # "#"
  BY BaseTypes DEF Middle, OfThing
<1>2. \A i \in 1..11 : i \in 1..8 \/ i = 9 \/ i = 10 \/ i = 11
  OBVIOUS
<1>3. {a, b, x, y} \cap {"/", "#"} = {}
  BY DEF Level
<1>4. Takes(f, n) => a \in {"+", x} /\ b \in {"+", y}
  <2>1. f = n => a = x /\ b = y
    BY <1>1
  <2>2. ASSUME Matched(f, n) PROVE a \in {"+", x} /\ b \in {"+", y}
    <3>1. \A k \in 1..Len(f) : f[k] \in {"+", "#", n[k]}
      BY <2>2 DEF Matched
    <3>2. 9 \in 1..Len(f) /\ 11 \in 1..Len(f)
      BY <1>1
    <3>3. f[9] \in {"+", "#", n[9]} /\ f[11] \in {"+", "#", n[11]}
      BY <3>1, <3>2
    <3> QED BY <1>1, <1>3, <3>3
  <2> QED BY <2>1, <2>2 DEF Takes
<1>5. a \in {"+", x} /\ b \in {"+", y} => Matched(f, n)
  BY <1>1, <1>2, <1>3 DEF Matched
<1> QED BY <1>4, <1>5 DEF Takes

LEMMA LongTakes ==
  ASSUME NEW f, NEW n, NEW a \in Level, NEW b \in Level, NEW c \in Level,
         NEW x \in Level, NEW y \in Level, NEW z \in Level, Long(f, a, b, c), Long(n, x, y, z)
  PROVE  Takes(f, n) <=> a \in {"+", x} /\ b \in {"+", y} /\ c \in {"+", z}
<1>1. /\ Len(f) = 13 /\ Len(n) = 13
      /\ f[9] = a /\ n[9] = x /\ f[10] = "/" /\ n[10] = "/" /\ f[11] = b /\ n[11] = y
      /\ f[12] = "/" /\ n[12] = "/" /\ f[13] = c /\ n[13] = z
      /\ \A i \in 1..8 : f[i] = n[i] /\ f[i] # "#"
  BY BaseTypes DEF Long, OfThing
<1>2. \A i \in 1..13 : i \in 1..8 \/ i = 9 \/ i = 10 \/ i = 11 \/ i = 12 \/ i = 13
  OBVIOUS
<1>3. {a, b, c, x, y, z} \cap {"/", "#"} = {}
  BY DEF Level
<1>4. Takes(f, n) => a \in {"+", x} /\ b \in {"+", y} /\ c \in {"+", z}
  <2>1. f = n => a = x /\ b = y /\ c = z
    BY <1>1
  <2>2. ASSUME Matched(f, n) PROVE a \in {"+", x} /\ b \in {"+", y} /\ c \in {"+", z}
    <3>1. \A k \in 1..Len(f) : f[k] \in {"+", "#", n[k]}
      BY <2>2 DEF Matched
    <3>2. 9 \in 1..Len(f) /\ 11 \in 1..Len(f) /\ 13 \in 1..Len(f)
      BY <1>1
    <3>3. f[9] \in {"+", "#", n[9]} /\ f[11] \in {"+", "#", n[11]} /\ f[13] \in {"+", "#", n[13]}
      BY <3>1, <3>2
    <3> QED BY <1>1, <1>3, <3>3
  <2> QED BY <2>1, <2>2 DEF Takes
<1>5. a \in {"+", x} /\ b \in {"+", y} /\ c \in {"+", z} => Matched(f, n)
  BY <1>1, <1>2, <1>3 DEF Matched
<1> QED BY <1>4, <1>5 DEF Takes

\* Others do not, unless the filter ends with "#".
LEMMA NoneTakes ==
  ASSUME NEW f, NEW n, Len(f) # Len(n), Len(f) \in Nat, f[Len(f)] # "#"
  PROVE  ~Takes(f, n)
BY DEF Takes, Matched

LEMMA AllTakes ==
  ASSUME NEW f, NEW n, Short(f, "#"), OfThing(n), Len(n) >= 9, n[9] \in Level
  PROVE  Takes(f, n)
<1>1. /\ Len(f) = 9 /\ f[9] = "#" /\ Len(n) \in Nat /\ n[9] # "/"
      /\ \A i \in 1..8 : f[i] = n[i] /\ f[i] # "#"
  BY BaseTypes DEF Short, OfThing, Level
<1>2. \A i \in 1..9 : i \in 1..8 \/ i = 9
  OBVIOUS
<1>3. Len(f) \in 1..Len(n)
  BY <1>1
<1> QED BY <1>1, <1>2, <1>3 DEF Takes, Matched

-----------------------------------------------------------------------------
(* The topics of subscriptions and of the messages of AWS.                 *)

Word == [ACCEPTED |-> "accepted", REJECTED |-> "rejected", WILDCARD |-> "+"]

LEMMA NextLevels ==
  ASSUME NEW a \in Words, NEW b \in Words
  PROVE  Middle(Base \o <<a, "/", b>>, a, b)
<1>1. Base \in Seq(Words) /\ "/" \in Words
  BY BaseTypes DEF Words
<1>2. \A s \in Words :
        /\ Base \o <<a, s, b>> \in Seq(Words) /\ Len(Base \o <<a, s, b>>) = Len(Base) + 3
        /\ (Base \o <<a, s, b>>)[Len(Base) + 1] = a /\ (Base \o <<a, s, b>>)[Len(Base) + 2] = s
        /\ (Base \o <<a, s, b>>)[Len(Base) + 3] = b
        /\ \A i \in 1..Len(Base) : (Base \o <<a, s, b>>)[i] = Base[i]
  BY <1>1
<1>3. /\ Base \o <<a, "/", b>> \in Seq(Words) /\ Len(Base \o <<a, "/", b>>) = Len(Base) + 3
      /\ (Base \o <<a, "/", b>>)[Len(Base) + 1] = a
      /\ (Base \o <<a, "/", b>>)[Len(Base) + 2] = "/"
      /\ (Base \o <<a, "/", b>>)[Len(Base) + 3] = b
      /\ \A i \in 1..Len(Base) : (Base \o <<a, "/", b>>)[i] = Base[i]
  BY <1>1, <1>2, Zenon
<1>4. ASSUME NEW u, u \in Seq(Words), Len(u) = Len(Base) + 3, u[Len(Base) + 1] = a,
             u[Len(Base) + 2] = "/", u[Len(Base) + 3] = b,
             \A i \in 1..Len(Base) : u[i] = Base[i]
      PROVE  Middle(u, a, b)
  BY <1>4, BaseTypes DEF Middle, OfThing
<1> QED BY <1>3, <1>4, Zenon

LEMMA NoSuffix ==
  ASSUME NEW t, OfThing(t)
  PROVE  t \o <<>> = t
BY DEF OfThing

LEMMA SuffixIs ==
  ASSUME NEW reply \in ReplyType
  PROVE  IF reply = "REQUEST" THEN Suffix[reply] = <<>>
         ELSE Suffix[reply] = <<"/", Word[reply]>> /\ Word[reply] \in Level
<1>1. {"+", "accepted", "rejected"} \subseteq Level
  BY LevelTypes
<1>2. CASE reply = "REQUEST"
  BY <1>2 DEF Suffix
<1>3. CASE reply # "REQUEST"
  <2>1. reply \in {"ACCEPTED", "REJECTED", "WILDCARD"}
    BY <1>3 DEF ReplyType
  <2>2. Word[reply] \in Level
    BY <1>1, <2>1 DEF Word
  <2>3. Suffix[reply] = <<"/", Word[reply]>>
    BY <2>1 DEF Word, Suffix
  <2> QED BY <1>3, <2>2, <2>3
<1> QED BY <1>2, <1>3

\* The forms that topics have, and which subscriptions have which
OneLevel(type, reply) == /\ type \in {"NOTIFY", "NOTIFY_NEXT", "START_NEXT", "GET_PENDING"}
                         /\ reply = "REQUEST"
Asked(type, reply)    == type \in {"START_NEXT", "GET_PENDING"} /\ reply \in DOMAIN Word
AskedFor(type, reply) == type \in {"UPDATE", "DESCRIBE"} /\ reply = "REQUEST"
Answer(type, reply)   == type \in {"UPDATE", "DESCRIBE", "WILDCARD"} /\ reply \in DOMAIN Word

LEMMA TopicForms ==
  ASSUME NEW type \in TopicType, NEW reply \in ReplyType, NEW job \in JobId \cup {NoJob},
         ApiTopic(type, reply, job) # Refused,
         type = "WILDCARD" /\ job # NoJob => reply # "REQUEST"
  PROVE  LET t == ApiTopic(type, reply, job)
         IN  \/ OneLevel(type, reply) /\ Short(t, Operation[type])
             \/ Asked(type, reply) /\ Middle(t, Operation[type], Word[reply])
             \/ AskedFor(type, reply) /\ job \in JobId /\ Middle(t, job, Operation[type])
             \/ Answer(type, reply) /\ job \in JobId /\ Long(t, job, Operation[type], Word[reply])
             \/ type = "WILDCARD" /\ job = NoJob /\ Short(t, "#")
<1>1. /\ TopicType = {"UPDATE", "NOTIFY", "NOTIFY_NEXT", "GET_PENDING", "DESCRIBE",
                      "START_NEXT", "WILDCARD"}
      /\ ReplyType = {"REQUEST"} \cup DOMAIN Word
  BY DEF TopicType, Operation, ReplyType, Word
<1>2. /\ type \in {"NOTIFY", "NOTIFY_NEXT"} => reply = "REQUEST"
      /\ type \in {"UPDATE", "DESCRIBE"} => job # NoJob
  BY DEF ApiTopic, RequiresJobId
<1>3. Operation[type] \in Words /\ "#" \in Words /\ (job # NoJob => job \in JobId /\ job \in Words)
  BY LevelTypes, Zenon DEF Words
<1>4. \A a \in Words : Short(Base \o <<a>>, a) /\ OfThing(Base \o <<a>>)
  BY ShortIs DEF Short
<1>5. \A a, b \in Words : Middle(Base \o <<a, "/", b>>, a, b) /\ OfThing(Base \o <<a, "/", b>>)
  BY NextLevels DEF Middle
<1>6. CASE type = "WILDCARD" /\ job = NoJob
  <2>1. ApiTopic(type, reply, job) = Base \o <<"#">>
    BY <1>6 DEF ApiTopic, RequiresJobId
  <2> QED BY <1>3, <1>4, <1>6, <2>1
<1>7. CASE type \in {"UPDATE", "DESCRIBE", "WILDCARD"} /\ job # NoJob
  <2>1. ApiTopic(type, reply, job) = Base \o <<job, "/", Operation[type]>> \o Suffix[reply]
    BY <1>7 DEF ApiTopic, RequiresJobId
  <2>2. CASE reply = "REQUEST"
    <3>1. ApiTopic(type, reply, job) = Base \o <<job, "/", Operation[type]>>
      BY <1>3, <1>5, <1>7, <2>1, <2>2, SuffixIs, NoSuffix, Zenon
    <3> QED BY <1>3, <1>5, <1>7, <2>2, <3>1 DEF AskedFor
  <2>3. CASE reply # "REQUEST"
    <3>1. Suffix[reply] = <<"/", Word[reply]>> /\ Word[reply] \in Words
      BY <2>3, SuffixIs, LevelTypes
    <3>2. Long(Base \o <<job, "/", Operation[type]>> \o <<"/", Word[reply]>>,
               job, Operation[type], Word[reply])
      BY <1>3, <1>5, <1>7, <3>1, LongIs, Zenon
    <3>3. Long(ApiTopic(type, reply, job), job, Operation[type], Word[reply])
      BY <2>1, <3>1, <3>2, Zenon
    <3> QED BY <1>1, <1>3, <1>7, <2>3, <3>3 DEF Answer
  <2> QED BY <2>2, <2>3
<1>8. CASE type \in {"NOTIFY", "NOTIFY_NEXT", "START_NEXT", "GET_PENDING"}
  <2>1. ApiTopic(type, reply, job) = Base \o <<Operation[type]>> \o Suffix[reply]
    BY <1>2, <1>8 DEF ApiTopic, RequiresJobId
  <2>2. CASE reply = "REQUEST"
    <3>1. ApiTopic(type, reply, job) = Base \o <<Operation[type]>>
      BY <1>3, <1>4, <2>1, <2>2, SuffixIs, NoSuffix, Zenon
    <3> QED BY <1>3, <1>4, <1>8, <2>2, <3>1 DEF OneLevel
  <2>3. CASE reply # "REQUEST"
    <3>1. Suffix[reply] = <<"/", Word[reply]>> /\ Word[reply] \in Words
      BY <2>3, SuffixIs, LevelTypes
    <3>2. Middle(Base \o <<Operation[type]>> \o <<"/", Word[reply]>>, Operation[type], Word[reply])
      BY <1>3, <1>4, <3>1, MiddleIs, Zenon
    <3>3. Middle(ApiTopic(type, reply, job), Operation[type], Word[reply])
      BY <2>1, <3>1, <3>2, Zenon
    <3> QED BY <1>1, <1>2, <1>8, <2>3, <3>3 DEF Asked
  <2> QED BY <2>2, <2>3
<1> QED BY <1>1, <1>2, <1>6, <1>7, <1>8

\* The messages that AWS sends
Notice(m)   == m.type \in {"NOTIFY", "NOTIFY_NEXT"} /\ m.reply = "REQUEST"
Reply(m)    == m.type \in {"START_NEXT", "GET_PENDING"} /\ m.reply \in {"ACCEPTED", "REJECTED"}
JobReply(m) == /\ m.type \in {"UPDATE", "DESCRIBE"} /\ m.reply \in {"ACCEPTED", "REJECTED"}
               /\ m.job \in JobId

Message(m) ==
  \/ Notice(m) /\ Short(m.topic, Operation[m.type])
  \/ Reply(m) /\ Middle(m.topic, Operation[m.type], Word[m.reply])
  \/ JobReply(m) /\ Long(m.topic, m.job, Operation[m.type], Word[m.reply])

LEMMA OperationsDiffer ==
  /\ \A a, b \in {"NOTIFY", "NOTIFY_NEXT", "START_NEXT", "GET_PENDING"} :
       Operation[a] \in {"+", Operation[b]} <=> a = b
  /\ \A a \in {"UPDATE", "DESCRIBE", "WILDCARD"}, b \in {"UPDATE", "DESCRIBE"} :
       Operation[a] \in {"+", Operation[b]} <=> a \in {"WILDCARD", b}
  /\ \A a \in {"UPDATE", "DESCRIBE"}, b \in {"ACCEPTED", "REJECTED"} :
       Operation[a] \notin {"+", Word[b]}
  /\ \A a \in DOMAIN Word, b \in {"ACCEPTED", "REJECTED"} :
       Word[a] \in {"+", Word[b]} <=> a \in {"WILDCARD", b}
  /\ \A a \in DOMAIN Word : Word[a] \in Level
<1>1. {"+", "accepted", "rejected"} \subseteq Level
  BY LevelTypes
<1>2. \A a \in DOMAIN Word : Word[a] \in {"+", "accepted", "rejected"}
  BY DEF Word
<1>3. \A a, b \in {"NOTIFY", "NOTIFY_NEXT", "START_NEXT", "GET_PENDING"} :
        Operation[a] \in {"+", Operation[b]} <=> a = b
  BY DEF Operation
<1>4. \A a \in {"UPDATE", "DESCRIBE", "WILDCARD"}, b \in {"UPDATE", "DESCRIBE"} :
        Operation[a] \in {"+", Operation[b]} <=> a \in {"WILDCARD", b}
  BY DEF Operation
<1>5. \A a \in {"UPDATE", "DESCRIBE"}, b \in {"ACCEPTED", "REJECTED"} :
        Operation[a] \notin {"+", Word[b]}
  BY DEF Operation, Word
<1>6. \A a \in DOMAIN Word, b \in {"ACCEPTED", "REJECTED"} :
        Word[a] \in {"+", Word[b]} <=> a \in {"WILDCARD", b}
  BY DEF Word
<1> QED BY <1>1, <1>2, <1>3, <1>4, <1>5, <1>6

\* How many levels a topic has, and that a filter of them does not end with "#"
LEMMA FormLengths ==
  ASSUME NEW t
  PROVE  /\ \A a : Short(t, a) => OfThing(t) /\ Len(t) = 9 /\ t[9] = a
         /\ \A a, b : Middle(t, a, b) => OfThing(t) /\ Len(t) = 11 /\ t[9] = a /\ t[Len(t)] = b
         /\ \A a, b, c : Long(t, a, b, c) => OfThing(t) /\ Len(t) = 13 /\ t[9] = a /\ t[Len(t)] = c
BY DEF Short, Middle, Long

LEMMA NumbersDiffer ==
  ASSUME NEW k
  PROVE  /\ k = 9 => k \in Nat /\ k # 11 /\ k # 13
         /\ k = 11 => k \in Nat /\ k # 9 /\ k # 13
         /\ k = 13 => k \in Nat /\ k # 9 /\ k # 11
OBVIOUS

\* A subscription takes the messages it is meant for and no others.
LEMMA TakesMeant ==
  ASSUME NEW s, s.type \in TopicType, s.reply \in ReplyType, s.job \in JobId \cup {NoJob},
         ApiTopic(s.type, s.reply, s.job) # Refused,
         s.type = "WILDCARD" /\ s.job # NoJob => s.reply # "REQUEST",
         NEW m, Message(m)
  PROVE  Takes(ApiTopic(s.type, s.reply, s.job), m.topic) <=> Meant(s, m)
<1> DEFINE f == ApiTopic(s.type, s.reply, s.job)
           n == m.topic
<1>1. \/ OneLevel(s.type, s.reply) /\ Short(f, Operation[s.type])
      \/ Asked(s.type, s.reply) /\ Middle(f, Operation[s.type], Word[s.reply])
      \/ AskedFor(s.type, s.reply) /\ s.job \in JobId /\ Middle(f, s.job, Operation[s.type])
      \/ Answer(s.type, s.reply) /\ s.job \in JobId
         /\ Long(f, s.job, Operation[s.type], Word[s.reply])
      \/ s.type = "WILDCARD" /\ s.job = NoJob /\ Short(f, "#")
  BY TopicForms
<1>2. \/ Notice(m) /\ Short(n, Operation[m.type])
      \/ Reply(m) /\ Middle(n, Operation[m.type], Word[m.reply])
      \/ JobReply(m) /\ Long(n, m.job, Operation[m.type], Word[m.reply])
  BY DEF Message
<1>3. m.type \in TopicType /\ m.reply \in {"REQUEST", "ACCEPTED", "REJECTED"}
  BY <1>2 DEF Notice, Reply, JobReply, TopicType, Operation
<1>4. /\ Operation[s.type] \in Level /\ Operation[m.type] \in Level
      /\ \A job \in JobId : job \in Level
      /\ \A a \in Level : a # "#" /\ a # "/"
  BY <1>3, LevelTypes DEF Level
<1>5. DOMAIN Word = {"ACCEPTED", "REJECTED", "WILDCARD"}
  BY DEF Word
<1>6. "+" \in JobId /\ NoJob \notin JobId
  BY JobAssumption DEF JobId
<1> SUFFICES Takes(f, n) <=> Meant(s, m)
  OBVIOUS
<1> HIDE DEF f, n
<1>14. /\ Short(n, Operation[m.type]) => Len(n) = 9
       /\ Middle(n, Operation[m.type], Word[m.reply]) => Len(n) = 11
       /\ Long(n, m.job, Operation[m.type], Word[m.reply]) => Len(n) = 13
  BY FormLengths
<1>15. /\ Len(n) = 9 => Len(n) \in Nat /\ Len(n) # 11 /\ Len(n) # 13
       /\ Len(n) = 11 => Len(n) \in Nat /\ Len(n) # 9 /\ Len(n) # 13
       /\ Len(n) = 13 => Len(n) \in Nat /\ Len(n) # 9 /\ Len(n) # 11
  BY NumbersDiffer
<1>16. /\ Reply(m) \/ JobReply(m) => ~Notice(m) /\ m.reply # "REQUEST"
       /\ Notice(m) \/ JobReply(m) => m.type \in {"NOTIFY", "NOTIFY_NEXT", "UPDATE", "DESCRIBE"}
       /\ Notice(m) \/ Reply(m) => m.type \notin {"UPDATE", "DESCRIBE", "WILDCARD"}
  BY DEF Notice, Reply, JobReply
<1>7. \A k, l \in Nat : Len(f) = k /\ Len(n) = l /\ k # l /\ f[Len(f)] # "#" => ~Takes(f, n)
  BY NoneTakes
<1>8. CASE OneLevel(s.type, s.reply) /\ Short(f, Operation[s.type])
  <2>1. Len(f) = 9 /\ f[Len(f)] # "#"
    BY <1>4, <1>8, FormLengths
  <2>2. CASE Notice(m) /\ Short(n, Operation[m.type])
    <3>1. Takes(f, n) <=> Operation[s.type] \in {"+", Operation[m.type]}
      BY <1>4, <1>8, <2>2, ShortTakes
    <3>2. Takes(f, n) <=> s.type = m.type
      BY <1>8, <2>2, <3>1, OperationsDiffer DEF OneLevel, Notice
    <3>3. Meant(s, m) <=> s.type = m.type
      BY <1>8, <2>2 DEF Meant, OneLevel, Notice
    <3> QED BY <3>2, <3>3, Zenon
  <2>3. CASE Len(n) # 9 /\ Len(n) \in Nat /\ ~Notice(m) /\ m.reply # "REQUEST"
    <3>1. ~Takes(f, n)
      BY <1>7, <2>1, <2>3
    <3>2. ~Meant(s, m)
      BY <1>8, <2>3 DEF Meant, OneLevel
    <3> QED BY <3>1, <3>2, Zenon
  <2>4. \/ Notice(m) /\ Short(n, Operation[m.type])
        \/ Len(n) # 9 /\ Len(n) \in Nat /\ ~Notice(m) /\ m.reply # "REQUEST"
    BY <1>2, <1>14, <1>15, <1>16, Zenon
  <2> QED BY <2>2, <2>3, <2>4, Zenon
<1>9. CASE Asked(s.type, s.reply) /\ Middle(f, Operation[s.type], Word[s.reply])
  <2>1. Len(f) = 11 /\ f[Len(f)] # "#" /\ Word[s.reply] \in Level
    BY <1>4, <1>9, FormLengths, OperationsDiffer DEF Asked
  <2>2. CASE Reply(m) /\ Middle(n, Operation[m.type], Word[m.reply])
    <3>1. Word[m.reply] \in Level
      BY <1>5, <2>2, OperationsDiffer DEF Reply
    <3>2. Takes(f, n) <=> /\ Operation[s.type] \in {"+", Operation[m.type]}
                          /\ Word[s.reply] \in {"+", Word[m.reply]}
      BY <1>4, <1>9, <2>1, <2>2, <3>1, MiddleTakes
    <3>3. Takes(f, n) <=> s.type = m.type /\ s.reply \in {"WILDCARD", m.reply}
      BY <1>9, <2>2, <3>2, OperationsDiffer DEF Asked, Reply
    <3>4. Meant(s, m) <=> s.type = m.type /\ s.reply \in {"WILDCARD", m.reply}
      BY <1>9, <2>2 DEF Meant, Asked, Reply
    <3> QED BY <3>3, <3>4, Zenon
  <2>3. CASE Len(n) # 11 /\ Len(n) \in Nat /\ m.type \in {"NOTIFY", "NOTIFY_NEXT", "UPDATE", "DESCRIBE"}
    <3>1. ~Takes(f, n)
      BY <1>7, <2>1, <2>3
    <3>2. ~Meant(s, m)
      BY <1>9, <2>3 DEF Meant, Asked
    <3> QED BY <3>1, <3>2, Zenon
  <2>4. \/ Reply(m) /\ Middle(n, Operation[m.type], Word[m.reply])
        \/ /\ Len(n) # 11 /\ Len(n) \in Nat
           /\ m.type \in {"NOTIFY", "NOTIFY_NEXT", "UPDATE", "DESCRIBE"}
    BY <1>2, <1>14, <1>15, <1>16, Zenon
  <2> QED BY <2>2, <2>3, <2>4, Zenon
<1>10. CASE AskedFor(s.type, s.reply) /\ s.job \in JobId /\ Middle(f, s.job, Operation[s.type])
  <2>1. Len(f) = 11 /\ f[Len(f)] # "#"
    BY <1>4, <1>10, FormLengths
  <2>2. ~Takes(f, n)
    <3>1. CASE Reply(m) /\ Middle(n, Operation[m.type], Word[m.reply])
      <4>1. Word[m.reply] \in Level
        BY <1>5, <3>1, OperationsDiffer DEF Reply
      <4>2. Takes(f, n) => Operation[s.type] \in {"+", Word[m.reply]}
        BY <1>4, <1>10, <3>1, <4>1, MiddleTakes
      <4> QED BY <1>10, <3>1, <4>2, OperationsDiffer DEF AskedFor, Reply
    <3>2. CASE Len(n) # 11 /\ Len(n) \in Nat
      BY <1>7, <2>1, <3>2
    <3>3. \/ Reply(m) /\ Middle(n, Operation[m.type], Word[m.reply])
          \/ Len(n) # 11 /\ Len(n) \in Nat
      BY <1>2, <1>14, <1>15, Zenon
    <3> QED BY <3>1, <3>2, <3>3, Zenon
  <2>3. ~Meant(s, m)
    BY <1>2, <1>10 DEF Meant, AskedFor, Notice, Reply, JobReply
  <2> QED BY <2>2, <2>3, Zenon
<1>11. CASE Answer(s.type, s.reply) /\ s.job \in JobId
            /\ Long(f, s.job, Operation[s.type], Word[s.reply])
  <2>1. Len(f) = 13 /\ f[Len(f)] # "#" /\ Word[s.reply] \in Level
    BY <1>4, <1>11, FormLengths, OperationsDiffer DEF Answer
  <2>2. CASE JobReply(m) /\ Long(n, m.job, Operation[m.type], Word[m.reply])
    <3>1. Word[m.reply] \in Level
      BY <1>5, <2>2, OperationsDiffer DEF JobReply
    <3>2. Takes(f, n) <=> /\ s.job \in {"+", m.job}
                          /\ Operation[s.type] \in {"+", Operation[m.type]}
                          /\ Word[s.reply] \in {"+", Word[m.reply]}
      <4>1. s.job \in Level /\ m.job \in Level
        BY <1>4, <1>11, <2>2 DEF JobReply
      <4>2. /\ Operation[s.type] \in Level /\ Operation[m.type] \in Level
            /\ Long(f, s.job, Operation[s.type], Word[s.reply])
            /\ Long(n, m.job, Operation[m.type], Word[m.reply])
        BY <1>4, <1>11, <2>2
      <4>3. Word[s.reply] \in Level
        BY <2>1
      <4> DEFINE P(a, b, c, x, y, z) ==
            Long(f, a, b, c) /\ Long(n, x, y, z)
              => (Takes(f, n) <=> a \in {"+", x} /\ b \in {"+", y} /\ c \in {"+", z})
      <4>4. \A a, b, c, x, y, z \in Level : P(a, b, c, x, y, z)
        BY LongTakes
      <4> HIDE DEF P
      <4>5. P(s.job, Operation[s.type], Word[s.reply], m.job, Operation[m.type], Word[m.reply])
        BY <3>1, <4>1, <4>2, <4>3, <4>4
      <4> QED BY <4>2, <4>5 DEF P
    <3>3. Takes(f, n) <=> /\ s.job \in {"+", m.job} /\ s.type \in {"WILDCARD", m.type}
                          /\ s.reply \in {"WILDCARD", m.reply}
      BY <1>11, <2>2, <3>2, OperationsDiffer DEF Answer, JobReply
    <3>4. m.type # "WILDCARD" /\ m.reply # "WILDCARD" /\ s.job # NoJob
      BY <1>6, <1>11, <2>2 DEF JobReply
    <3>5. Meant(s, m) <=> /\ s.job \in {"+", m.job} /\ s.type \in {"WILDCARD", m.type}
                          /\ s.reply \in {"WILDCARD", m.reply}
      BY <2>2, <3>4 DEF Meant, JobReply
    <3> QED BY <3>3, <3>5, Zenon
  <2>3. CASE Len(n) # 13 /\ Len(n) \in Nat /\ m.type \notin {"UPDATE", "DESCRIBE", "WILDCARD"}
    <3>1. ~Takes(f, n)
      BY <1>7, <2>1, <2>3
    <3>2. s.job # NoJob
      BY <1>6, <1>11
    <3>3. ~Meant(s, m)
      BY <1>11, <2>3, <3>2 DEF Meant, Answer
    <3> QED BY <3>1, <3>3, Zenon
  <2>4. \/ JobReply(m) /\ Long(n, m.job, Operation[m.type], Word[m.reply])
        \/ /\ Len(n) # 13 /\ Len(n) \in Nat
           /\ m.type \notin {"UPDATE", "DESCRIBE", "WILDCARD"}
    BY <1>2, <1>14, <1>15, <1>16, Zenon
  <2> QED BY <2>2, <2>3, <2>4, Zenon
<1>12. CASE s.type = "WILDCARD" /\ s.job = NoJob /\ Short(f, "#")
  <2>1. OfThing(n) /\ Len(n) >= 9 /\ n[9] \in Level
    BY <1>2, <1>4, FormLengths DEF JobReply
  <2>2. Takes(f, n)
    BY <1>12, <2>1, AllTakes
  <2>3. Meant(s, m)
    BY <1>12 DEF Meant
  <2> QED BY <2>2, <2>3, Zenon
<1> QED BY <1>1, <1>8, <1>9, <1>10, <1>11, <1>12, Zenon

-----------------------------------------------------------------------------
(* What is subscribed, asked for and answered.                             *)

\* A subscription that takes answers only: the filter jobs/+/+ would also take
\* the answers to the requests that have no job.
Apart(s) == s.type = "WILDCARD" /\ s.job # NoJob => s.reply # "REQUEST"

Good(s) == s \in Subscription /\ ApiTopic(s.type, s.reply, s.job) # Refused /\ Apart(s)

Asks(r) ==
  /\ r.type \in DOMAIN FieldsOf /\ r.job \in JobId \cup {NoJob}
  /\ ApiTopic(r.type, "REQUEST", r.job) # Refused

Asking(m) ==
  /\ Asks(m.request) /\ m.type = m.request.type
  /\ m.topic = ApiTopic(m.type, "REQUEST", m.request.job)

\* The firmware keeps what it subscribed for, and subscribes for nothing else.
Kept ==
  /\ \A s \in subs : s.firmware => \E i \in 1..4 : s = InitSubscriptions[i]
  /\ step <= InitDone => \A i \in 1..4 : i < step => InitSubscriptions[i] \in subs

TopicsInv ==
  /\ step \in 1..7
  /\ \A s \in subs : Good(s)
  /\ sent # NoMessage => Asking(sent)
  /\ answer # NoMessage => Message(answer)
  /\ Kept

\* sys_aws_jobs_init asks for the description of the next job.
LEMMA NextJobAsked == Asks(DescribeNext)
<1>1. /\ DescribeNext.type = "DESCRIBE" /\ DescribeNext.job = "$next"
      /\ "DESCRIBE" \in DOMAIN FieldsOf /\ "$next" \in JobId
  BY DEF DescribeNext, FieldsOf, JobId
<1>2. "$next" # NoJob /\ "$next" \in Words /\ Operation["DESCRIBE"] \in Words
  BY <1>1, JobAssumption, LevelTypes DEF TopicType, Operation
<1>3. ApiTopic("DESCRIBE", "REQUEST", "$next")
        = Base \o <<"$next", "/", Operation["DESCRIBE"]>> \o Suffix["REQUEST"]
  BY <1>2 DEF ApiTopic, RequiresJobId
<1>4. Suffix["REQUEST"] = <<>>
  BY DEF Suffix
<1>5. Middle(Base \o <<"$next", "/", Operation["DESCRIBE"]>>, "$next", Operation["DESCRIBE"])
  BY <1>2, NextLevels
<1>6. Middle(ApiTopic("DESCRIBE", "REQUEST", "$next"), "$next", Operation["DESCRIBE"])
  BY <1>3, <1>4, <1>5, NoSuffix, Zenon DEF Middle
<1>7. \A t : Len(t) = 11 => t # <<>>
  OBVIOUS
<1>8. ApiTopic("DESCRIBE", "REQUEST", "$next") # Refused
  BY <1>6, <1>7, FormLengths DEF Refused
<1> QED BY <1>1, <1>8, Zenon DEF Asks

LEMMA RequestsAsk ==
  ASSUME NEW r \in Requests, Checked(r)
  PROVE  Asks(r)
BY JobsAssumption DEF Checked, Fits, Asks

\* What a step leaves on its way to AWS
LEMMA SentStep ==
  ASSUME TopicsInv, IInv, [Next]_vars
  PROVE  sent' # NoMessage => Asking(sent')
<1>1. ASSUME NEW r, NEW doc, Asks(r), Send(r, doc) PROVE Asking(sent')
  <2>1. /\ sent'.request = r /\ sent'.type = r.type
        /\ sent'.topic = ApiTopic(r.type, "REQUEST", r.job)
    BY <1>1 DEF Send
  <2> QED BY <1>1, <2>1 DEF Asking
<1>2. UNCHANGED sent => (sent' # NoMessage => Asking(sent'))
  BY DEF TopicsInv
<1>3. CASE InitDescribes
  BY <1>1, <1>2, <1>3, NextJobAsked DEF InitDescribes
<1>4. CASE CallsEmpty
  BY <1>1, <1>4, RequestsAsk DEF CallsEmpty
<1>5. CASE Publishes
  <2>1. Asks(call.request)
    BY <1>5, RequestsAsk DEF IInv, Progress, Publishes
  <2> QED BY <1>1, <1>2, <1>5, <2>1 DEF Publishes
<1>6. CASE AwsAnswers \/ Lost
  BY <1>6 DEF AwsAnswers, Lost
<1>7. CASE InitSubscribes \/ OtherSubscribes \/ OtherUnsubscribes \/ Calls \/ PrintFragment
           \/ AwsNotifies \/ Delivered \/ UNCHANGED vars
  BY <1>2, <1>7 DEF InitSubscribes, OtherSubscribes, OtherUnsubscribes, Calls, PrintFragment,
                    AwsNotifies, Delivered, vars
<1> QED BY <1>3, <1>4, <1>5, <1>6, <1>7 DEF Next

\* The topic of an answer is that of the request, with one more level.
LEMMA AnswerIs ==
  ASSUME NEW m, Asking(m), NEW reply \in {"ACCEPTED", "REJECTED"}, NEW a,
         a.type = m.type, a.reply = reply, a.job = m.request.job,
         a.topic = m.topic \o <<"/", Word[reply]>>
  PROVE  Message(a)
<1>1. /\ m.type \in {"UPDATE", "DESCRIBE", "START_NEXT", "GET_PENDING"}
      /\ m.request.job \in JobId \cup {NoJob}
      /\ ApiTopic(m.type, "REQUEST", m.request.job) # Refused
      /\ m.topic = ApiTopic(m.type, "REQUEST", m.request.job)
  BY DEF Asking, Asks, FieldsOf
<1>2. m.type \in TopicType /\ m.type # "WILDCARD" /\ "REQUEST" \in ReplyType
      /\ "REQUEST" \notin DOMAIN Word
  BY <1>1 DEF TopicType, Operation, ReplyType, Word
<1>3. Word[reply] \in Words
  BY LevelTypes DEF Word
<1>4. \/ OneLevel(m.type, "REQUEST") /\ Short(m.topic, Operation[m.type])
      \/ AskedFor(m.type, "REQUEST") /\ m.request.job \in JobId
         /\ Middle(m.topic, m.request.job, Operation[m.type])
  BY <1>1, <1>2, TopicForms DEF Asked, Answer
<1>5. CASE OneLevel(m.type, "REQUEST") /\ Short(m.topic, Operation[m.type])
  <2>1. Middle(m.topic \o <<"/", Word[reply]>>, Operation[m.type], Word[reply])
    BY <1>3, <1>5, MiddleIs
  <2>2. Middle(a.topic, Operation[a.type], Word[a.reply])
    BY <2>1, Zenon
  <2>3. Reply(a)
    BY <1>1, <1>5 DEF Reply, OneLevel
  <2> QED BY <2>2, <2>3 DEF Message
<1>6. CASE /\ AskedFor(m.type, "REQUEST") /\ m.request.job \in JobId
           /\ Middle(m.topic, m.request.job, Operation[m.type])
  <2>1. Long(m.topic \o <<"/", Word[reply]>>, m.request.job, Operation[m.type], Word[reply])
    BY <1>3, <1>6, LongIs
  <2>2. Long(a.topic, a.job, Operation[a.type], Word[a.reply])
    BY <2>1, Zenon
  <2>3. JobReply(a)
    BY <1>6 DEF JobReply, AskedFor
  <2> QED BY <2>2, <2>3 DEF Message
<1> QED BY <1>4, <1>5, <1>6

LEMMA NoticeIs ==
  ASSUME NEW type \in {"NOTIFY", "NOTIFY_NEXT"}, NEW a,
         a.type = type, a.reply = "REQUEST", a.topic = Base \o <<Operation[type]>>
  PROVE  Message(a)
<1>1. Operation[type] \in Words
  BY LevelTypes DEF TopicType, Operation
<1>2. Short(a.topic, Operation[a.type])
  BY <1>1, ShortIs, Zenon
<1> QED BY <1>2 DEF Message, Notice

LEMMA AnswerStep ==
  ASSUME TopicsInv, [Next]_vars
  PROVE  answer' # NoMessage => Message(answer')
<1>1. CASE AwsAnswers
  <2>1. PICK reply \in {"ACCEPTED", "REJECTED"} :
          answer' = [type |-> sent.type, reply |-> reply, job |-> sent.request.job,
                     topic |-> sent.topic \o
                       <<"/", IF reply = "ACCEPTED" THEN "accepted" ELSE "rejected">>]
    BY <1>1 DEF AwsAnswers
  <2>2. (IF reply = "ACCEPTED" THEN "accepted" ELSE "rejected") = Word[reply]
    BY DEF Word
  <2>3. /\ answer'.type = sent.type /\ answer'.reply = reply /\ answer'.job = sent.request.job
        /\ answer'.topic = sent.topic \o <<"/", Word[reply]>>
    BY <2>1, <2>2
  <2>4. Asking(sent)
    BY <1>1 DEF AwsAnswers, TopicsInv
  <2> QED BY <2>3, <2>4, AnswerIs, Zenon
<1>2. CASE AwsNotifies
  <2>1. PICK n \in {<<"NOTIFY", "notify">>, <<"NOTIFY_NEXT", "notify-next">>} :
          answer' = [type |-> n[1], reply |-> "REQUEST", job |-> NoJob,
                     topic |-> <<"$aws", "/", "things", "/", "thing", "/", "jobs", "/", n[2]>>]
    BY <1>2 DEF AwsNotifies
  <2>2. n[1] \in {"NOTIFY", "NOTIFY_NEXT"} /\ n[2] = Operation[n[1]]
    BY DEF Operation
  <2>3. <<"$aws", "/", "things", "/", "thing", "/", "jobs", "/", n[2]>> = Base \o <<n[2]>>
    BY DEF Base
  <2>4. /\ answer'.type = n[1] /\ answer'.reply = "REQUEST"
        /\ answer'.topic = Base \o <<Operation[n[1]]>>
    BY <2>1, <2>2, <2>3
  <2> QED BY <2>2, <2>4, NoticeIs, Zenon
<1>3. CASE answer' \in {answer, NoMessage}
  BY <1>3 DEF TopicsInv
<1>4. \/ AwsAnswers \/ AwsNotifies \/ answer' \in {answer, NoMessage}
  BY DEF Next, InitSubscribes, InitDescribes, OtherSubscribes, OtherUnsubscribes, CallsEmpty,
         Calls, PrintFragment, Publishes, Lost, Delivered, vars
<1> QED BY <1>1, <1>2, <1>3, <1>4

\* The subscriptions of the firmware
LEMMA InitSubscriptionsAre ==
  /\ Len(InitSubscriptions) = 4 /\ Describing = 5 /\ InitDone = 6 /\ InitFailed = 7
  /\ \A i \in 1..4 : InitSubscriptions[i].firmware /\ Apart(InitSubscriptions[i])
<1>1. Len(InitSubscriptions) = 4 /\ Describing = 5 /\ InitDone = 6 /\ InitFailed = 7
  BY DEF InitSubscriptions, Describing, InitDone, InitFailed
<1>2. \A i \in 1..4 : i = 1 \/ i = 2 \/ i = 3 \/ i = 4
  OBVIOUS
<1>3. /\ InitSubscriptions[1].firmware /\ InitSubscriptions[2].firmware
      /\ InitSubscriptions[3].firmware /\ InitSubscriptions[4].firmware
      /\ InitSubscriptions[1].type # "WILDCARD" /\ InitSubscriptions[2].type # "WILDCARD"
      /\ InitSubscriptions[3].type # "WILDCARD" /\ InitSubscriptions[4].type # "WILDCARD"
  BY DEF InitSubscriptions
<1> QED BY <1>1, <1>2, <1>3 DEF Apart

LEMMA SubscriptionsStep ==
  ASSUME TopicsInv, [Next]_vars, \A o \in Others : Apart(o)
  PROVE  step' \in 1..7 /\ (\A s \in subs' : Good(s)) /\ Kept'
<1>1. CASE InitSubscribes
  <2>1. step \in 1..4
    BY <1>1, InitSubscriptionsAre DEF InitSubscribes, TopicsInv
  <2>2. CASE Subscribe(InitSubscriptions[step]) /\ step' = step + 1
    <3>1. PICK s : s = InitSubscriptions[step]
      OBVIOUS
    <3>2. subs' = subs \cup {s} /\ ApiTopic(s.type, s.reply, s.job) # Refused
      BY <2>2, <3>1 DEF Subscribe, Fits
    <3>3. s \in Subscription /\ s.firmware /\ Apart(s)
      BY <2>1, <3>1, InitSubscriptionsAre, InitSubscriptionsType
    <3>4. Good(s)
      BY <3>2, <3>3 DEF Good
    <3>5. \A x \in subs' : x.firmware => \E i \in 1..4 : x = InitSubscriptions[i]
      BY <2>1, <3>1, <3>2 DEF TopicsInv, Kept
    <3>6. \A i \in 1..4 : i < step + 1 => i < step \/ i = step
      BY <2>1
    <3>7. \A i \in 1..4 : i < step => InitSubscriptions[i] \in subs
      BY <2>1, InitSubscriptionsAre DEF TopicsInv, Kept
    <3>8. \A i \in 1..4 : i < step' => InitSubscriptions[i] \in subs'
      BY <2>2, <3>1, <3>2, <3>6, <3>7
    <3> QED BY <2>1, <2>2, <3>2, <3>4, <3>5, <3>8 DEF TopicsInv, Kept, InitSubscriptions
  <2>3. CASE step' = InitFailed /\ UNCHANGED subs
    <3>1. ~(step' <= InitDone) /\ step' \in 1..7
      BY <2>3, InitSubscriptionsAre
    <3> QED BY <2>3, <3>1 DEF TopicsInv, Kept, InitSubscriptions
  <2> QED BY <1>1, <2>2, <2>3 DEF InitSubscribes
<1>2. CASE InitDescribes
  <2>1. step = 5 /\ step' \in {6, 7} /\ subs' = subs
    BY <1>2, InitSubscriptionsAre DEF InitDescribes
  <2>2. \A i \in 1..4 : i < 5 => InitSubscriptions[i] \in subs
    BY <2>1, InitSubscriptionsAre DEF TopicsInv, Kept
  <2>3. \A i \in 1..4 : InitSubscriptions[i] \in subs
    BY <2>2
  <2> QED BY <2>1, <2>3 DEF TopicsInv, Kept, InitSubscriptions
<1>3. CASE OtherSubscribes
  <2>1. PICK o \in Others :
          Subscribe([type |-> o.type, reply |-> o.reply, job |-> o.job, firmware |-> FALSE])
    BY <1>3 DEF OtherSubscribes
  <2>2. PICK s : s = [type |-> o.type, reply |-> o.reply, job |-> o.job, firmware |-> FALSE]
    OBVIOUS
  <2>3. /\ subs' = subs \cup {s} /\ ApiTopic(s.type, s.reply, s.job) # Refused
        /\ ~s.firmware /\ s.type = o.type /\ s.reply = o.reply /\ s.job = o.job
    BY <2>1, <2>2 DEF Subscribe, Fits
  <2>4. o.type \in TopicType /\ o.reply \in ReplyType /\ o.job \in JobId \cup {NoJob}
    BY JobsAssumption
  <2>5. s \in Subscription
    BY <2>2, <2>4 DEF Subscription
  <2>6. Good(s)
    BY <2>3, <2>5 DEF Good, Apart
  <2>7. step' = step
    BY <1>3 DEF OtherSubscribes
  <2> QED BY <2>3, <2>6, <2>7 DEF TopicsInv, Kept, InitSubscriptions
<1>4. CASE OtherUnsubscribes
  <2>1. step' = step /\ \E s \in subs : ~s.firmware /\ subs' = subs \ {s}
    BY <1>4 DEF OtherUnsubscribes
  <2> QED BY <2>1, InitSubscriptionsAre DEF TopicsInv, Kept, InitSubscriptions
<1>5. CASE UNCHANGED <<subs, step>>
  BY <1>5 DEF TopicsInv, Kept, InitSubscriptions
<1>6. \/ InitSubscribes \/ InitDescribes \/ OtherSubscribes \/ OtherUnsubscribes
      \/ UNCHANGED <<subs, step>>
  BY DEF Next, vars, CallsEmpty, Calls, PrintFragment, Publishes, AwsAnswers, AwsNotifies,
         Lost, Delivered
<1> QED BY <1>1, <1>2, <1>3, <1>4, <1>5, <1>6

\* The handlers that a message calls are those meant for it.
LEMMA SelectiveHolds ==
  ASSUME TopicsInv
  PROVE  Selective
<1>1. ASSUME answer # NoMessage PROVE CalledFor(answer) = {s \in subs : Meant(s, answer)}
  <2>1. Message(answer)
    BY <1>1 DEF TopicsInv
  <2>2. ASSUME NEW s \in subs
        PROVE  Takes(ApiTopic(s.type, s.reply, s.job), answer.topic) <=> Meant(s, answer)
    <3>1. Good(s)
      BY DEF TopicsInv
    <3>2. s.type \in TopicType /\ s.reply \in ReplyType /\ s.job \in JobId \cup {NoJob}
      BY <3>1 DEF Good, Subscription
    <3> QED BY <2>1, <3>1, <3>2, TakesMeant DEF Good, Apart
  <2> QED BY <2>2 DEF CalledFor
<1> QED BY <1>1 DEF Selective

\* Of the four subscriptions of the firmware, one is meant for such a message.
LEMMA OneIsMeant ==
  ASSUME NEW m, Message(m),
         \/ m.type \in {"UPDATE", "NOTIFY_NEXT"}
         \/ m.type = "DESCRIBE" /\ m.job = "$next"
  PROVE  \E k \in 1..4 : \A i \in 1..4 : Meant(InitSubscriptions[i], m) <=> i = k
<1>1. \A i \in 1..4 : i = 1 \/ i = 2 \/ i = 3 \/ i = 4
  OBVIOUS
<1>2. "+" # NoJob /\ "$next" # NoJob
  BY JobAssumption DEF JobId
<1>3. /\ InitSubscriptions[1].type = "NOTIFY_NEXT" /\ InitSubscriptions[1].reply = "REQUEST"
      /\ InitSubscriptions[2].type = "DESCRIBE" /\ InitSubscriptions[2].reply = "WILDCARD"
      /\ InitSubscriptions[2].job = "$next"
      /\ InitSubscriptions[3].type = "UPDATE" /\ InitSubscriptions[3].reply = "ACCEPTED"
      /\ InitSubscriptions[3].job = "+"
      /\ InitSubscriptions[4].type = "UPDATE" /\ InitSubscriptions[4].reply = "REJECTED"
      /\ InitSubscriptions[4].job = "+"
  BY DEF InitSubscriptions
<1>4. \/ m.type = "NOTIFY_NEXT" /\ m.reply = "REQUEST"
      \/ m.type \in {"UPDATE", "DESCRIBE"} /\ m.reply \in {"ACCEPTED", "REJECTED"}
  BY DEF Message, Notice, Reply, JobReply
<1> DEFINE M(i) == Meant(InitSubscriptions[i], m)
<1>5. M(1) <=> m.type = "NOTIFY_NEXT"
  BY <1>2, <1>3, <1>4 DEF Meant
<1>6. M(2) <=> m.type = "DESCRIBE"
  BY <1>2, <1>3, <1>4 DEF Meant
<1>7. M(3) <=> m.type = "UPDATE" /\ m.reply = "ACCEPTED"
  BY <1>2, <1>3, <1>4 DEF Meant
<1>8. M(4) <=> m.type = "UPDATE" /\ m.reply = "REJECTED"
  BY <1>2, <1>3, <1>4 DEF Meant
<1> HIDE DEF M
<1>9. CASE m.type = "NOTIFY_NEXT"
  BY <1>1, <1>5, <1>6, <1>7, <1>8, <1>9 DEF M
<1>10. CASE m.type = "DESCRIBE"
  BY <1>1, <1>5, <1>6, <1>7, <1>8, <1>10 DEF M
<1>11. CASE m.type = "UPDATE" /\ m.reply = "ACCEPTED"
  BY <1>1, <1>5, <1>6, <1>7, <1>8, <1>11 DEF M
<1>12. CASE m.type = "UPDATE" /\ m.reply = "REJECTED"
  BY <1>1, <1>5, <1>6, <1>7, <1>8, <1>12 DEF M
<1> QED BY <1>4, <1>9, <1>10, <1>11, <1>12

LEMMA FirmwareHearsHolds ==
  ASSUME TopicsInv, Selective
  PROVE  FirmwareHears
<1> SUFFICES ASSUME step = InitDone, answer # NoMessage,
                    \/ answer.type \in {"UPDATE", "NOTIFY_NEXT"}
                    \/ answer.type = "DESCRIBE" /\ answer.job = "$next"
             PROVE  Cardinality({s \in CalledFor(answer) : s.firmware}) = 1
  BY DEF FirmwareHears
<1>1. CalledFor(answer) = {s \in subs : Meant(s, answer)}
  BY DEF Selective
<1>2. PICK k \in 1..4 : \A i \in 1..4 : Meant(InitSubscriptions[i], answer) <=> i = k
  BY OneIsMeant DEF TopicsInv
<1>3. /\ \A s \in subs : s.firmware => \E i \in 1..4 : s = InitSubscriptions[i]
      /\ \A i \in 1..4 : InitSubscriptions[i] \in subs
  <2>1. \A i \in 1..4 : i < 6
    OBVIOUS
  <2> QED BY <2>1, InitSubscriptionsAre DEF TopicsInv, Kept
<1>4. InitSubscriptions[k].firmware
  BY InitSubscriptionsAre
<1>5. {s \in subs : Meant(s, answer) /\ s.firmware} = {InitSubscriptions[k]}
  BY <1>2, <1>3, <1>4
<1>6. {s \in CalledFor(answer) : s.firmware} = {InitSubscriptions[k]}
  BY <1>1, <1>5
<1> QED BY <1>6, FS_Singleton, Zenon

\* A message AWS sends calls the handlers subscribed for it and no others, and
\* once sys_aws_jobs_init is done one of the firmware's for all it waits for:
\* provided nobody subscribes to jobs/+/+ without a level for the answer.
THEOREM HandlersAreRight ==
  ASSUME \A o \in Others : o.type = "WILDCARD" /\ o.job # NoJob => o.reply # "REQUEST"
  PROVE  Spec => []RightHandlers
<1>1. \A o \in Others : Apart(o)
  BY DEF Apart
<1>2. Init => TopicsInv
  <2>1. Init => step = 1 /\ subs = {} /\ sent = NoMessage /\ answer = NoMessage
    BY DEF Init
  <2>2. \A i \in 1..4 : ~(i < 1)
    OBVIOUS
  <2> QED BY <2>1, <2>2 DEF TopicsInv, Kept
<1>3. TopicsInv /\ IInv /\ [Next]_vars => TopicsInv'
  <2> SUFFICES ASSUME TopicsInv, IInv, [Next]_vars PROVE TopicsInv'
    OBVIOUS
  <2>1. sent' # NoMessage => Asking(sent')
    BY SentStep
  <2>2. answer' # NoMessage => Message(answer')
    BY AnswerStep
  <2>3. step' \in 1..7 /\ (\A s \in subs' : Good(s)) /\ Kept'
    BY <1>1, SubscriptionsStep
  <2> QED BY <2>1, <2>2, <2>3 DEF TopicsInv, NoMessage
<1>4. TopicsInv => RightHandlers
  BY SelectiveHolds, FirmwareHearsHolds DEF RightHandlers
<1> QED BY <1>2, <1>3, <1>4, Invariance, PTL DEF Spec
=============================================================================
