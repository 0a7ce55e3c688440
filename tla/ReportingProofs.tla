-------------------------- MODULE ReportingProofs --------------------------
(***************************************************************************)
(* Theorems about Reporting, for any zones, entries, options, any set of   *)
(* controllers and any bounds: the two processes that write the status of  *)
(* an object do not take back what the other one has reported, and when    *)
(* all work is done zones and entries show what they should.               *)
(***************************************************************************)
EXTENDS Reporting, ResponsibilityProofs

\* A status has the fields of its kind; their values do not matter here.
ZoneShape(s) ==
    s \in [valid : {s.valid}, runtime : {s.runtime}, nameserver : {s.nameserver},
           server : {s.server}, state : {s.state}]

EntryShape(s) ==
    s \in [valid : {s.valid}, server : {s.server}, root : {s.root},
           names : {s.names}, state : {s.state}]

Shaped(x, s) == IF x \in Zones THEN ZoneShape(s) ELSE EntryShape(s)

\* So have objects and requests.
ObjectShape(x, o) ==
    /\ IF x \in Zones
       THEN o \in [spec : {o.spec}, deleting : {o.deleting}, fin : {o.fin}, status : {o.status}]
       ELSE o \in [spec : {o.spec}, status : {o.status}]
    /\ Shaped(x, o.status)

RequestShape(r) ==
    /\ r \in [key : Objects, status : {r.status}, dirty : BOOLEAN,
              stale : BOOLEAN, again : BOOLEAN]
    /\ Shaped(r.key, r.status)

\* What worker w must leave alone in a status s: the report of the others.
Foreign(w, s) ==
    IF w \in {"operator.zone", "operator.entry"} THEN {"server"}
    ELSE {"valid", "runtime", "nameserver"} \cap DOMAIN s

Same(w, s, t) == Slave => \A c \in Foreign(w, s) : s[c] = t[c]

Shapes ==
    /\ objs = [x \in Objects |-> objs[x]]
    /\ req = [w \in Workers |-> req[w]]
    /\ \A x \in Objects : objs[x] # Absent => ObjectShape(x, objs[x])
    /\ \A w \in Workers : req[w] # Idle => RequestShape(req[w])

\* An open request knows the report of the others, unless it is old.
Fresh(w) ==
    req[w] # Idle /\ ~req[w].stale /\ objs[req[w].key] # Absent
    => Same(w, req[w].status, objs[req[w].key].status)

Inv == Shapes /\ \A w \in Workers : Fresh(w)

\* What NoReportLost says of a step.
Keeps ==
    \A w \in Workers :
        req[w] # Idle /\ req'[w] = Idle /\ objs'[req[w].key] # objs[req[w].key]
        => (Slave => \A c \in Foreign(w, req[w].status) :
                        objs'[req[w].key].status[c] = objs[req[w].key].status[c])

\* A status that worker w may start a request with.
Report(w, x, s) == Shaped(x, s) /\ Same(w, s, objs[x].status)

-----------------------------------------------------------------------------
(* The shapes of steps, as regards objects and requests. *)

\* An open request is not mistaken for none, however old it gets.
LEMMA OutdateEffect ==
    ASSUME Shapes, NEW x \in Objects
    PROVE  /\ Outdate(x) = [w \in Workers |-> Outdate(x)[w]]
           /\ \A w \in Workers :
                 /\ req[w] = Idle => Outdate(x)[w] = Idle
                 /\ req[w] # Idle =>
                       /\ RequestShape(Outdate(x)[w])
                       /\ Outdate(x)[w] # Idle
                       /\ Outdate(x)[w].key = req[w].key
                       /\ Outdate(x)[w].status = req[w].status
                       /\ req[w].key = x => Outdate(x)[w].stale
                       /\ req[w].key # x => Outdate(x)[w] = req[w]
<1>1. ASSUME NEW w \in Workers, req[w] # Idle, req[w].key = x
      PROVE  /\ RequestShape([req[w] EXCEPT !.stale = TRUE])
             /\ [req[w] EXCEPT !.stale = TRUE].key = req[w].key
             /\ [req[w] EXCEPT !.stale = TRUE].status = req[w].status
             /\ [req[w] EXCEPT !.stale = TRUE].stale
  <2>1. RequestShape(req[w])
    BY <1>1 DEF Shapes
  <2>2. [req[w] EXCEPT !.stale = TRUE]
           \in [key : Objects, status : {req[w].status}, dirty : BOOLEAN,
                stale : BOOLEAN, again : BOOLEAN]
    BY <2>1 DEF RequestShape
  <2>3. /\ [req[w] EXCEPT !.stale = TRUE].key = req[w].key
        /\ [req[w] EXCEPT !.stale = TRUE].status = req[w].status
        /\ [req[w] EXCEPT !.stale = TRUE].stale
    BY <2>1 DEF RequestShape
  <2>4. QED
    BY <2>1, <2>2, <2>3 DEF RequestShape
<1>2. \A r : RequestShape(r) => r # Idle
  BY NamesAssumption, ReportingAssumption DEF RequestShape, Idle, Objects
<1>3. Outdate(x) = [w \in Workers |-> Outdate(x)[w]]
  BY DEF Outdate
<1>4. ASSUME NEW w \in Workers, req[w] = Idle PROVE Outdate(x)[w] = Idle
  <2>1. req[w].key = NoZone /\ x # NoZone
    BY <1>4, NamesAssumption, ReportingAssumption DEF Idle, Objects
  <2>2. QED
    BY <1>4, <2>1 DEF Outdate
<1>5. ASSUME NEW w \in Workers, req[w] # Idle
      PROVE  /\ RequestShape(Outdate(x)[w])
             /\ Outdate(x)[w] # Idle
             /\ Outdate(x)[w].key = req[w].key
             /\ Outdate(x)[w].status = req[w].status
             /\ req[w].key = x => Outdate(x)[w].stale
             /\ req[w].key # x => Outdate(x)[w] = req[w]
  <2>1. CASE req[w].key = x
    <3>1. Outdate(x)[w] = [req[w] EXCEPT !.stale = TRUE]
      BY <2>1 DEF Outdate
    <3>2. QED
      BY <1>1, <1>2, <1>5, <2>1, <3>1
  <2>2. CASE req[w].key # x
    <3>1. Outdate(x)[w] = req[w]
      BY <2>2 DEF Outdate
    <3>2. QED
      BY <1>2, <1>5, <2>2, <3>1 DEF Shapes
  <2>3. QED
    BY <2>1, <2>2
<1>6. QED
  BY <1>3, <1>4, <1>5

\* Neither objects nor requests.
LEMMA QuietStep ==
    ASSUME Inv, objs' = objs, req' = req
    PROVE  Inv' /\ Keeps
BY DEF Inv, Shapes, Fresh, Same, Foreign, Keeps, ObjectShape, RequestShape, Shaped,
       ZoneShape, EntryShape

\* A request is started.
LEMMA TakingStep ==
    ASSUME Inv, NEW w \in Workers, NEW x \in Objects, NEW s, NEW b \in BOOLEAN,
           req[w] = Idle, objs[x] # Absent, Report(w, x, s),
           objs' = objs, req' = [req EXCEPT ![w] = NewRequest(x, s, b)]
    PROVE  Inv' /\ Keeps
<1>1. /\ req'[w] = NewRequest(x, s, b)
      /\ \A v \in Workers \ {w} : req'[v] = req[v]
  BY DEF Inv, Shapes
<1>2. RequestShape(NewRequest(x, s, b))
  BY DEF NewRequest, RequestShape, Report
<1>3. Shapes'
  BY <1>1, <1>2 DEF Inv, Shapes
<1>4. \A v \in Workers : Fresh(v)'
  <2>1. Fresh(w)'
    BY <1>1 DEF Fresh, NewRequest, Report, Same
  <2>2. \A v \in Workers \ {w} : Fresh(v)'
    BY <1>1 DEF Inv, Fresh, Same
  <2>3. QED
    BY <2>1, <2>2
<1>5. Keeps
  BY DEF Keeps
<1>6. QED
  BY <1>3, <1>4, <1>5 DEF Inv

\* A request ends without a write.
LEMMA EndingStep ==
    ASSUME Inv, NEW w \in Workers, objs' = objs, req' = [req EXCEPT ![w] = Idle]
    PROVE  Inv' /\ Keeps
<1>1. /\ req'[w] = Idle
      /\ \A v \in Workers \ {w} : req'[v] = req[v]
  BY DEF Inv, Shapes
<1>2. Shapes'
  BY <1>1 DEF Inv, Shapes
<1>3. \A v \in Workers : Fresh(v)'
  BY <1>1 DEF Inv, Fresh, Same
<1>4. Keeps
  BY DEF Keeps
<1>5. QED
  BY <1>2, <1>3, <1>4 DEF Inv

\* An object is written; no request ends.
LEMMA WritingStep ==
    ASSUME Inv, NEW x \in Objects, NEW o, o = Absent \/ ObjectShape(x, o),
           objs' = [objs EXCEPT ![x] = o], req' = Outdate(x)
    PROVE  Inv' /\ Keeps
<1>1. \A y \in Objects : objs'[y] = IF y = x THEN o ELSE objs[y]
  BY DEF Inv, Shapes
<1>2. Shapes'
  BY <1>1, OutdateEffect DEF Inv, Shapes
<1>3. ASSUME NEW w \in Workers PROVE Fresh(w)'
  <2>1. CASE req[w] = Idle
    BY <2>1, OutdateEffect DEF Inv, Fresh
  <2>2. CASE req[w] # Idle /\ req[w].key = x
    BY <2>2, OutdateEffect DEF Inv, Fresh
  <2>3. CASE req[w] # Idle /\ req[w].key # x
    <3>1. req'[w] = req[w] /\ req[w].key \in Objects
      BY <2>3, OutdateEffect DEF Inv, Shapes, RequestShape
    <3>2. objs'[req[w].key] = objs[req[w].key]
      BY <1>1, <2>3, <3>1
    <3>3. QED
      BY <2>3, <3>1, <3>2 DEF Inv, Fresh, Same
  <2>4. QED
    BY <2>1, <2>2, <2>3
<1>4. Keeps
  BY OutdateEffect DEF Inv, Keeps
<1>5. QED
  BY <1>2, <1>3, <1>4 DEF Inv

\* The finalizer is put on a zone at the start of a request.
LEMMA ClaimingStep ==
    ASSUME Inv, NEW w \in Workers, NEW z \in Zones, NEW s, NEW b \in BOOLEAN,
           req[w] = Idle, objs[z] # Absent, Report(w, z, s),
           objs' = [objs EXCEPT ![z].fin = TRUE],
           req' = [Outdate(z) EXCEPT ![w] = NewRequest(z, s, b)]
    PROVE  Inv' /\ Keeps
<1> DEFINE o == [objs[z] EXCEPT !.fin = TRUE]
<1>1. ObjectShape(z, objs[z]) /\ z \in Objects
  BY DEF Inv, Shapes, Objects
<1>2. ObjectShape(z, o) /\ o.status = objs[z].status
  BY <1>1 DEF ObjectShape
<1>3. objs' = [objs EXCEPT ![z] = o]
  OBVIOUS
<1> HIDE DEF o
<1>4. \A y \in Objects : objs'[y] = IF y = z THEN o ELSE objs[y]
  BY <1>3 DEF Inv, Shapes
<1>5. /\ req'[w] = NewRequest(z, s, b)
      /\ req' = [v \in Workers |-> req'[v]]
      /\ \A v \in Workers \ {w} : req'[v] = Outdate(z)[v]
  BY <1>1, OutdateEffect DEF Inv
<1>6. RequestShape(NewRequest(z, s, b))
  BY <1>1 DEF NewRequest, RequestShape, Report
<1>7. Shapes'
  BY <1>1, <1>2, <1>3, <1>4, <1>5, <1>6, OutdateEffect DEF Inv, Shapes
<1>8. ASSUME NEW v \in Workers PROVE Fresh(v)'
  <2>1. CASE v = w
    BY <1>1, <1>2, <1>4, <1>5, <2>1 DEF Fresh, NewRequest, Report, Same
  <2>2. CASE v # w /\ req[v] = Idle
    BY <1>1, <1>5, <2>2, OutdateEffect DEF Inv, Fresh
  <2>3. CASE v # w /\ req[v] # Idle /\ req[v].key = z
    BY <1>1, <1>5, <2>3, OutdateEffect DEF Inv, Fresh
  <2>4. CASE v # w /\ req[v] # Idle /\ req[v].key # z
    <3>1. req'[v] = req[v] /\ req[v].key \in Objects
      BY <1>1, <1>5, <2>4, OutdateEffect DEF Inv, Shapes, RequestShape
    <3>2. objs'[req[v].key] = objs[req[v].key]
      BY <1>4, <2>4, <3>1
    <3>3. QED
      BY <2>4, <3>1, <3>2 DEF Inv, Fresh, Same
  <2>5. QED
    BY <2>1, <2>2, <2>3, <2>4
<1>9. Keeps
  <2>1. \A v \in Workers : req[v] # Idle => req'[v] # Idle
    BY <1>1, <1>5, OutdateEffect DEF Inv
  <2>2. QED
    BY <2>1 DEF Keeps
<1>10. QED
  BY <1>7, <1>8, <1>9 DEF Inv

\* The status is written at the end of a request.
LEMMA ReportingStep ==
    ASSUME Inv, NEW w \in Workers, req[w] # Idle,
           objs[req[w].key] # Absent, ~req[w].stale,
           objs' = [objs EXCEPT ![req[w].key].status = req[w].status],
           req' = [Outdate(req[w].key) EXCEPT ![w] = Idle]
    PROVE  Inv' /\ Keeps
<1> DEFINE x == req[w].key
           o == [objs[x] EXCEPT !.status = req[w].status]
<1>1. x \in Objects /\ ObjectShape(x, objs[x]) /\ Shaped(x, req[w].status)
  BY DEF Inv, Shapes, RequestShape
<1>2. ObjectShape(x, o) /\ o.status = req[w].status
  BY <1>1 DEF ObjectShape
<1>3. objs' = [objs EXCEPT ![x] = o]
  OBVIOUS
<1> HIDE DEF o
<1>4. \A y \in Objects : objs'[y] = IF y = x THEN o ELSE objs[y]
  BY <1>3 DEF Inv, Shapes
<1>5. /\ req'[w] = Idle
      /\ req' = [v \in Workers |-> req'[v]]
      /\ \A v \in Workers \ {w} : req'[v] = Outdate(x)[v]
  BY <1>1, OutdateEffect DEF Inv
<1>6. Shapes'
  BY <1>1, <1>2, <1>3, <1>4, <1>5, OutdateEffect DEF Inv, Shapes
<1>7. ASSUME NEW v \in Workers PROVE Fresh(v)'
  <2>1. CASE v = w
    BY <1>5, <2>1 DEF Fresh
  <2>2. CASE v # w /\ req[v] = Idle
    BY <1>1, <1>5, <2>2, OutdateEffect DEF Inv, Fresh
  <2>3. CASE v # w /\ req[v] # Idle /\ req[v].key = x
    BY <1>1, <1>5, <2>3, OutdateEffect DEF Inv, Fresh
  <2>4. CASE v # w /\ req[v] # Idle /\ req[v].key # x
    <3>1. req'[v] = req[v] /\ req[v].key \in Objects
      BY <1>1, <1>5, <2>4, OutdateEffect DEF Inv, Shapes, RequestShape
    <3>2. objs'[req[v].key] = objs[req[v].key]
      BY <1>4, <2>4, <3>1
    <3>3. QED
      BY <2>4, <3>1, <3>2 DEF Inv, Fresh, Same
  <2>5. QED
    BY <2>1, <2>2, <2>3, <2>4
<1>8. Keeps
  <2>1. \A v \in Workers \ {w} : req[v] # Idle => req'[v] # Idle
    BY <1>1, <1>5, OutdateEffect DEF Inv
  <2>2. Same(w, req[w].status, objs[x].status)
    BY DEF Inv, Fresh
  <2>3. objs'[x].status = req[w].status
    BY <1>1, <1>2, <1>4
  <2>4. QED
    BY <2>1, <2>2, <2>3 DEF Keeps, Same
<1>9. QED
  BY <1>6, <1>7, <1>8 DEF Inv

-----------------------------------------------------------------------------
(* What the requests report. *)

\* Writing one field of the status of a zone.
LEMMA ZoneFields ==
    ASSUME NEW s, ZoneShape(s), NEW v
    PROVE  /\ ZoneShape([s EXCEPT !.valid = v]) /\ [s EXCEPT !.valid = v].server = s.server
           /\ ZoneShape([s EXCEPT !.runtime = v]) /\ [s EXCEPT !.runtime = v].server = s.server
           /\ ZoneShape([s EXCEPT !.nameserver = v])
           /\ [s EXCEPT !.nameserver = v].server = s.server
           /\ ZoneShape([s EXCEPT !.state = v]) /\ [s EXCEPT !.state = v].server = s.server
<1>1. s \in [valid : {s.valid}, runtime : {s.runtime}, nameserver : {s.nameserver},
             server : {s.server}, state : {s.state}]
  BY DEF ZoneShape
<1>2. /\ ZoneShape([s EXCEPT !.valid = v]) /\ [s EXCEPT !.valid = v].server = s.server
  BY <1>1 DEF ZoneShape
<1>3. /\ ZoneShape([s EXCEPT !.runtime = v]) /\ [s EXCEPT !.runtime = v].server = s.server
  BY <1>1 DEF ZoneShape
<1>4. /\ ZoneShape([s EXCEPT !.nameserver = v])
      /\ [s EXCEPT !.nameserver = v].server = s.server
  BY <1>1 DEF ZoneShape
<1>5. /\ ZoneShape([s EXCEPT !.state = v]) /\ [s EXCEPT !.state = v].server = s.server
  BY <1>1 DEF ZoneShape
<1>6. QED
  BY <1>2, <1>3, <1>4, <1>5

\* So does the sum of the conditions of a zone.
LEMMA SummaryFields ==
    ASSUME NEW s, ZoneShape(s)
    PROVE  ZoneShape(summary(s)) /\ summary(s).server = s.server
<1>1. PICK v : summary(s) = [s EXCEPT !.state = v]
  BY DEF summary
<1> DEFINE t == [s EXCEPT !.state = v]
<1>2. ZoneShape(t) /\ t.server = s.server
  BY ZoneFields
<1>3. summary(s) = t
  BY <1>1
<1> HIDE DEF t
<1>4. QED
  BY <1>2, <1>3

\* What a request makes of the conditions of a root zone.
Combined(s, a, b) == summary([s EXCEPT !.runtime = a, !.nameserver = b])

\* It leaves the condition of the server, ...
LEMMA RootFields ==
    ASSUME NEW s, ZoneShape(s), NEW a, NEW b
    PROVE  ZoneShape(Combined(s, a, b)) /\ Combined(s, a, b).server = s.server
<1> DEFINE r == [s EXCEPT !.runtime = a]
           t == [r EXCEPT !.nameserver = b]
<1>1. Combined(s, a, b) = summary(t)
  BY DEF Combined
<1>2. ZoneShape(r) /\ r.server = s.server
  BY ZoneFields
<1> HIDE DEF r
<1>3. ZoneShape(t) /\ t.server = s.server
  BY <1>2, ZoneFields
<1> HIDE DEF t
<1>4. ZoneShape(summary(t)) /\ summary(t).server = s.server
  BY <1>3, SummaryFields
<1>5. QED
  BY <1>1, <1>4

\* ... and so does what it makes of the ones of a nested zone.
LEMMA NestedFields ==
    ASSUME NEW s, ZoneShape(s), NEW from
    PROVE  LET t == transferConditions(s, from)
           IN  ZoneShape(t) /\ t.server = s.server
<1> DEFINE q == [s EXCEPT !.runtime = from.runtime]
           r == [q EXCEPT !.nameserver = from.nameserver]
           t == [r EXCEPT !.valid = IF from.valid = "unknown" THEN "unknown" ELSE @]
<1>1. transferConditions(s, from) = summary(t)
  BY DEF transferConditions
<1>2. ZoneShape(q) /\ q.server = s.server
  BY ZoneFields
<1> HIDE DEF q
<1>3. ZoneShape(r) /\ r.server = s.server
  BY <1>2, ZoneFields
<1> HIDE DEF r
<1>4. ZoneShape(t) /\ t.server = s.server
  BY <1>3, ZoneFields
<1> HIDE DEF t
<1>5. ZoneShape(summary(t)) /\ summary(t).server = s.server
  BY <1>4, SummaryFields
<1>6. QED
  BY <1>1, <1>5

\* The operator leaves the condition of the server.
LEMMA ZoneReportKeeps ==
    ASSUME Shapes, NEW z \in Zones, objs[z] # Absent
    PROVE  Report("operator.zone", z, ZoneReport(z))
<1> DEFINE s == objs[z].status
           valid == [s EXCEPT !.valid = "true"]
           invalid == [s EXCEPT !.valid = "false"]
<1>1. ZoneShape(s)
  BY DEF Shapes, ObjectShape, Shaped, Objects
<1>2. ZoneShape(valid) /\ valid.server = s.server
  BY <1>1, ZoneFields
<1>3. ZoneShape(invalid) /\ invalid.server = s.server
  BY <1>1, ZoneFields
<1>4. \/ ZoneReport(z) \in {s, valid, invalid}
      \/ \E from : ZoneReport(z) = transferConditions(valid, from)
      \/ \E a, b : ZoneReport(z) = Combined(valid, a, b)
  BY DEF ZoneReport, Combined
<1> HIDE DEF valid, invalid
<1>5. ZoneShape(ZoneReport(z)) /\ ZoneReport(z).server = s.server
  <2>1. CASE ZoneReport(z) \in {s, valid, invalid}
    BY <1>1, <1>2, <1>3, <2>1
  <2>2. ASSUME NEW from, ZoneReport(z) = transferConditions(valid, from)
        PROVE  ZoneShape(ZoneReport(z)) /\ ZoneReport(z).server = s.server
    BY <1>2, <2>2, NestedFields
  <2>3. ASSUME NEW a, NEW b, ZoneReport(z) = Combined(valid, a, b)
        PROVE  ZoneShape(ZoneReport(z)) /\ ZoneReport(z).server = s.server
    BY <1>2, <2>3, RootFields
  <2>4. QED
    BY <1>4, <2>1, <2>2, <2>3
<1>6. QED
  BY <1>5 DEF Report, Same, Foreign, Shaped

\* Writing one field of the status of an entry.
LEMMA EntryFields ==
    ASSUME NEW s, EntryShape(s), NEW v
    PROVE  /\ LET t == [s EXCEPT !.valid = v] IN EntryShape(t) /\ t.server = s.server
                                                 /\ t.valid = v
           /\ LET t == [s EXCEPT !.server = v] IN EntryShape(t) /\ t.valid = s.valid
           /\ LET t == [s EXCEPT !.root = v] IN EntryShape(t) /\ t.valid = s.valid
           /\ LET t == [s EXCEPT !.names = v] IN EntryShape(t) /\ t.valid = s.valid
           /\ LET t == [s EXCEPT !.state = v] IN EntryShape(t) /\ t.server = s.server
                                                 /\ t.valid = s.valid
<1>1. s \in [valid : {s.valid}, server : {s.server}, root : {s.root},
             names : {s.names}, state : {s.state}]
  BY DEF EntryShape
<1>2. LET t == [s EXCEPT !.valid = v] IN EntryShape(t) /\ t.server = s.server /\ t.valid = v
  BY <1>1 DEF EntryShape
<1>3. LET t == [s EXCEPT !.server = v] IN EntryShape(t) /\ t.valid = s.valid
  BY <1>1 DEF EntryShape
<1>4. LET t == [s EXCEPT !.root = v] IN EntryShape(t) /\ t.valid = s.valid
  BY <1>1 DEF EntryShape
<1>5. LET t == [s EXCEPT !.names = v] IN EntryShape(t) /\ t.valid = s.valid
  BY <1>1 DEF EntryShape
<1>6. LET t == [s EXCEPT !.state = v] IN EntryShape(t) /\ t.server = s.server
                                         /\ t.valid = s.valid
  BY <1>1 DEF EntryShape
<1>7. QED
  BY <1>2, <1>3, <1>4, <1>5, <1>6

\* The operator leaves the condition of the server on entries.
LEMMA EntryReportKeeps ==
    ASSUME Shapes, NEW e \in Entries, objs[e] # Absent
    PROVE  Report("operator.entry", e, EntryReport(e))
<1> DEFINE s == objs[e].status
<1>1. EntryShape(s) /\ e \notin Zones
  BY ReportingAssumption DEF Shapes, ObjectShape, Shaped, Objects
<1>2. EntryShape(EntryReport(e)) /\ EntryReport(e).server = s.server
  <2>1. CASE EntryReport(e) = s
    BY <1>1, <2>1
  <2>2. ASSUME NEW a, NEW b, EntryReport(e) = [s EXCEPT !.valid = a, !.state = b]
        PROVE  EntryShape(EntryReport(e)) /\ EntryReport(e).server = s.server
    <3> DEFINE r == [s EXCEPT !.valid = a]
               t == [r EXCEPT !.state = b]
    <3>1. EntryReport(e) = t
      BY <2>2
    <3>2. EntryShape(r) /\ r.server = s.server
      BY <1>1, EntryFields
    <3> HIDE DEF r
    <3>3. EntryShape([r EXCEPT !.state = b]) /\ [r EXCEPT !.state = b].server = r.server
      BY <3>2 DEF EntryShape
    <3>4. QED
      BY <3>1, <3>2, <3>3
  <2>3. QED
    BY <2>1, <2>2 DEF EntryReport
<1>3. QED
  BY <1>1, <1>2 DEF Report, Same, Foreign, Shaped

\* The server leaves the conditions of the operator on zones.
LEMMA ServedKeeps ==
    ASSUME Shapes, NEW z \in Zones, objs[z] # Absent, NEW ok
    PROVE  Report("server.zone", z, Served(objs[z].status, ok))
<1> DEFINE s == objs[z].status
           t == Served(s, ok)
<1>1. s \in [valid : {s.valid}, runtime : {s.runtime}, nameserver : {s.nameserver},
             server : {s.server}, state : {s.state}]
  BY DEF Shapes, ObjectShape, Shaped, ZoneShape, Objects
<1>2. CASE IsMaster(s)
  <2>1. /\ ZoneShape(t) /\ t.valid = "unknown" /\ t.runtime = "unknown"
        /\ t.nameserver = "unknown"
    BY <1>2 DEF Served, ZoneShape
  <2>2. Slave => s.valid = "unknown" /\ s.runtime = "unknown" /\ s.nameserver = "unknown"
    BY <1>1, <1>2 DEF IsMaster
  <2> HIDE DEF t
  <2>3. QED
    BY <1>1, <2>1, <2>2 DEF Report, Same, Foreign, Shaped, t
<1>3. CASE ~IsMaster(s)
  <2>1. t = [s EXCEPT !.server = Condition(ok)]
    BY <1>3 DEF Served
  <2>2. /\ ZoneShape(t) /\ t.valid = s.valid /\ t.runtime = s.runtime
        /\ t.nameserver = s.nameserver
    BY <1>1, <2>1 DEF ZoneShape
  <2> HIDE DEF t
  <2>3. QED
    BY <1>1, <2>2 DEF Report, Same, Foreign, Shaped, t
<1>4. QED
  BY <1>2, <1>3

\* And on entries.
LEMMA EntryServedKeeps ==
    ASSUME NEW s, EntryShape(s), NEW force, NEW root, NEW ok
    PROVE  LET t == EntryServed(s, force, root, ok)
           IN  EntryShape(t) /\ (Slave => t.valid = s.valid)
<1> DEFINE w == [s EXCEPT !.valid = "unknown"]
           v == [w EXCEPT !.server = "unknown"]
           wiped == IF force /\ IsMaster(s) THEN v ELSE s
           r == [wiped EXCEPT !.root = root]
           n == [r EXCEPT !.names = (root # NoZone)]
           verdict == IF ok THEN "Ok" ELSE "Invalid"
           a == [n EXCEPT !.state = verdict]
           b == [n EXCEPT !.server = Condition(ok)]
           t == IF IsMaster(s) THEN a ELSE b
<1>1. EntryServed(s, force, root, ok) = t
  BY DEF EntryServed
<1>2. EntryShape(w) /\ w.valid = "unknown"
  BY EntryFields
<1> HIDE DEF w
<1>3. EntryShape(v) /\ v.valid = "unknown"
  BY <1>2, EntryFields
<1>4. IsMaster(s) /\ Slave => s.valid = "unknown"
  BY DEF IsMaster, EntryShape
<1> HIDE DEF v
<1>5. EntryShape(wiped) /\ (Slave => wiped.valid = s.valid)
  BY <1>3, <1>4
<1> HIDE DEF wiped
<1>6. EntryShape(r) /\ r.valid = wiped.valid
  BY <1>5, EntryFields
<1> HIDE DEF r
<1>7. EntryShape(n) /\ n.valid = r.valid
  BY <1>6, EntryFields
<1> HIDE DEF n
<1> HIDE DEF verdict
<1>8. EntryShape(a) /\ a.valid = n.valid
  BY <1>7, EntryFields
<1>9. EntryShape(b) /\ b.valid = n.valid
  BY <1>7, EntryFields
<1> HIDE DEF a, b
<1>10. QED
  BY <1>1, <1>5, <1>6, <1>7, <1>8, <1>9 DEF verdict

LEMMA DisownedKeeps ==
    ASSUME NEW s, EntryShape(s), NEW root
    PROVE  EntryShape(Disowned(s, root)) /\ Disowned(s, root).valid = s.valid
<1> DEFINE r == [s EXCEPT !.root = NoZone]
           q == [r EXCEPT !.server = "unknown"]
           t == [q EXCEPT !.state = ""]
<1>1. Disowned(s, root) \in {s, t}
  BY DEF Disowned
<1>2. EntryShape(r) /\ r.valid = s.valid
  BY EntryFields
<1> HIDE DEF r
<1>3. EntryShape(q) /\ q.valid = s.valid
  BY <1>2, EntryFields
<1> HIDE DEF q
<1>4. EntryShape(t) /\ t.valid = s.valid
  BY <1>3, EntryFields
<1> HIDE DEF t
<1>5. QED
  BY <1>1, <1>4

LEMMA EntryServiceKeeps ==
    ASSUME Shapes, NEW e \in Entries, objs[e] # Absent
    PROVE  Report("server.entry", e, EntryService(e))
<1> DEFINE s == objs[e].status
           t == EntryService(e)
<1>1. EntryShape(s) /\ e \notin Zones
  BY ReportingAssumption DEF Shapes, ObjectShape, Shaped, Objects
<1>2. \/ \E root : t = Disowned(s, root)
      \/ \E force, root, ok : t = EntryServed(s, force, root, ok)
  BY DEF EntryService
<1>3. EntryShape(t) /\ (Slave => t.valid = s.valid)
  BY <1>1, <1>2, DisownedKeeps, EntryServedKeeps
<1> HIDE DEF t
<1>4. \A c \in Foreign("server.entry", t) : c = "valid"
  BY <1>3 DEF Foreign, EntryShape
<1>5. QED
  BY <1>1, <1>3, <1>4 DEF Report, Same, Shaped, t

-----------------------------------------------------------------------------
(* The steps. *)

\* What an object looks like when it is created.
LEMMA NewObjectShape ==
    ASSUME NEW x \in Objects, NEW s
    PROVE  ObjectShape(x, NewObject(x, s))
<1>1. CASE x \in Zones
  BY <1>1 DEF NewObject, ObjectShape, Shaped, ZoneShape
<1>2. CASE x \notin Zones
  BY <1>2 DEF NewObject, ObjectShape, Shaped, EntryShape
<1>3. QED
  BY <1>1, <1>2

\* Users.
LEMMA UserStep ==
    ASSUME Inv, User
    PROVE  Inv' /\ Keeps
<1>1. ASSUME NEW x \in Objects, NEW s, Create(x, s) PROVE Inv' /\ Keeps
  BY <1>1, NewObjectShape, WritingStep DEF Create, Write
<1>2. ASSUME NEW x \in Objects, NEW s, Update(x, s) PROVE Inv' /\ Keeps
  <2> DEFINE o == [objs[x] EXCEPT !.spec = s]
  <2>1. ObjectShape(x, objs[x])
    BY <1>2 DEF Update, Inv, Shapes
  <2>2. ObjectShape(x, o)
    <3>1. CASE x \in Zones
      BY <2>1, <3>1 DEF ObjectShape
    <3>2. CASE x \notin Zones
      BY <2>1, <3>2 DEF ObjectShape
    <3>3. QED
      BY <3>1, <3>2
  <2>3. QED
    BY <1>2, <2>2, WritingStep DEF Update, Write
<1>3. ASSUME NEW x \in Objects, Delete(x) PROVE Inv' /\ Keeps
  <2> DEFINE o == [objs[x] EXCEPT !.deleting = TRUE]
  <2>1. ObjectShape(x, objs[x])
    BY <1>3 DEF Delete, Inv, Shapes
  <2>2. CASE x \in Zones /\ objs[x].fin
    <3>1. ObjectShape(x, o)
      BY <2>1, <2>2 DEF ObjectShape
    <3>2. QED
      BY <1>3, <2>2, <3>1, WritingStep DEF Delete, Write
  <2>3. CASE ~(x \in Zones /\ objs[x].fin)
    BY <1>3, <2>3, WritingStep DEF Delete, Write
  <2>4. QED
    BY <2>2, <2>3
<1>4. QED
  BY <1>1, <1>2, <1>3 DEF User

\* The requests of the operator about zones.
LEMMA OperatorZoneStep ==
    ASSUME Inv, NEW z \in Zones,
           \/ Reconcile(z) \/ AccessFails(z) \/ ReconcileFails(z) \/ LookupFails(z)
           \/ ReconcileDeleting(z) \/ ReconcileDeleted(z)
    PROVE  Inv' /\ Keeps
<1> DEFINE w == "operator.zone"
<1>1. w \in Workers /\ req[w] = Idle /\ z \in Objects
  BY DEF Reconcile, AccessFails, ReconcileFails, LookupFails, ReconcileDeleting,
         ReconcileDeleted, Takes, Objects
<1>2. ASSUME NEW s, NEW b \in BOOLEAN, Report(w, z, s), objs[z] # Absent,
             NEW q, Handle(z, NewRequest(z, s, b), q)
      PROVE  Inv' /\ Keeps
  <2>1. CASE Claim(z, NewRequest(z, s, b), q)
    BY <1>1, <1>2, <2>1, ClaimingStep DEF Claim
  <2>2. CASE Proceed(z, NewRequest(z, s, b), q)
    <3>1. objs' = objs /\ (req' = req \/ req' = [req EXCEPT ![w] = NewRequest(z, s, b)])
      BY <2>2 DEF Proceed
    <3>2. QED
      BY <1>1, <1>2, <3>1, TakingStep, QuietStep
  <2>3. QED
    BY <1>2, <2>1, <2>2 DEF Handle
<1>3. objs[z] # Absent => Report(w, z, objs[z].status) /\ ZoneShape(objs[z].status)
  BY <1>1 DEF Inv, Shapes, ObjectShape, Shaped, Report, Same
<1>4. CASE Reconcile(z)
  BY <1>2, <1>4, ZoneReportKeeps DEF Reconcile, Living, Inv
<1>5. CASE ReconcileFails(z)
  <2>1. PICK r : Handle(z, NewRequest(z, [objs[z].status EXCEPT !.valid = "true",
                                                               !.runtime = r], TRUE),
                        Accessed(z))
    BY <1>5 DEF ReconcileFails
  <2> DEFINE s == objs[z].status
             v == [s EXCEPT !.valid = "true"]
             t == [v EXCEPT !.runtime = r]
  <2>2. objs[z] # Absent
    BY <1>5 DEF ReconcileFails, Living
  <2>3. ZoneShape(v) /\ v.server = s.server
    BY <1>3, <2>2, ZoneFields
  <2>4. Handle(z, NewRequest(z, t, TRUE), Accessed(z))
    BY <2>1
  <2> HIDE DEF v
  <2>5. ZoneShape(t) /\ t.server = s.server
    BY <2>3, ZoneFields
  <2> HIDE DEF t
  <2>6. Report(w, z, t)
    BY <2>5 DEF Report, Same, Foreign, Shaped
  <2>7. QED
    BY <1>2, <2>2, <2>4, <2>6
<1>6. CASE LookupFails(z)
  BY <1>1, <1>3, <1>6, TakingStep DEF LookupFails, Living
<1>7. CASE ReconcileDeleting(z)
  BY <1>1, <1>7, WritingStep DEF ReconcileDeleting
<1>8. CASE ReconcileDeleted(z)
  BY <1>8, QuietStep DEF ReconcileDeleted
<1>9. CASE AccessFails(z)
  <2> DEFINE v == [objs[z].status EXCEPT !.valid = "true"]
  <2>1. objs[z] # Absent /\ Handle(z, NewRequest(z, v, FALSE), Rest(w, z))
    BY <1>9 DEF AccessFails, Living
  <2>2. ZoneShape(v) /\ v.server = objs[z].status.server
    BY <1>3, <2>1, ZoneFields
  <2> HIDE DEF v
  <2>3. Report(w, z, v)
    BY <2>2 DEF Report, Same, Foreign, Shaped
  <2>4. QED
    BY <1>2, <2>1, <2>3
<1>10. QED
  BY <1>4, <1>5, <1>6, <1>7, <1>8, <1>9

\* A request that starts, unless there is nothing to report.
LEMMA BeginStep ==
    ASSUME Inv, NEW w, NEW x \in Objects, NEW s, objs[x] # Absent,
           Takes(w, x), Begin(w, x, s), objs' = objs,
           Report(w, x, s)
    PROVE  Inv' /\ Keeps
<1>1. w \in Workers /\ req[w] = Idle
  BY DEF Takes
<1>2. req' = req \/ req' = [req EXCEPT ![w] = NewRequest(x, s, FALSE)]
  BY DEF Begin
<1>3. QED
  BY <1>1, <1>2, TakingStep, QuietStep

\* The start of a request by any controller.
LEMMA StartStep ==
    ASSUME Inv, NEW w \in Workers, NEW x \in Objects, Start(w, x)
    PROVE  Inv' /\ Keeps
<1> DEFINE s == objs[x].status
<1>1. ASSUME objs[x] # Absent, NEW v PROVE Report(v, x, s)
  BY <1>1 DEF Inv, Shapes, ObjectShape, Report, Same
<1>2. CASE x \in Zones /\ (Reconcile(x) \/ ReconcileDeleting(x) \/ ReconcileDeleted(x))
  BY <1>2, OperatorZoneStep
<1>3. CASE x \in Zones /\ Serve(x)
  <2>1. PICK ok : \/ Begin("server.zone", x, s)
                  \/ Begin("server.zone", x, Served(s, ok))
    BY <1>3 DEF Serve
  <2>2. objs[x] # Absent /\ Takes("server.zone", x) /\ objs' = objs
    BY <1>3 DEF Serve, Living
  <2>3. Report("server.zone", x, s) /\ Report("server.zone", x, Served(s, ok))
    BY <1>1, <1>3, <2>2, ServedKeeps DEF Inv
  <2>4. QED
    BY <2>1, <2>2, <2>3, BeginStep
<1>4. CASE x \in Zones /\ TriggerStatusChanged(x)
  BY <1>4, QuietStep DEF TriggerStatusChanged
<1>5. CASE x \in Entries /\ ReconcileEntry(x)
  BY <1>5, EntryReportKeeps, BeginStep DEF ReconcileEntry, Inv
<1>6. CASE x \in Entries /\ ServeEntry(x)
  BY <1>6, EntryServiceKeeps, BeginStep DEF ServeEntry, Inv
<1>7. CASE x \in Entries /\ EntryDeleted(w, x)
  BY <1>7, QuietStep DEF EntryDeleted
<1>8. QED
  BY <1>2, <1>3, <1>4, <1>5, <1>6, <1>7 DEF Start

\* One that fails at its start.
LEMMA StartFailsStep ==
    ASSUME Inv, NEW x \in Objects, StartFails(x)
    PROVE  Inv' /\ Keeps
<1>1. ASSUME objs[x] # Absent, NEW v PROVE Report(v, x, objs[x].status)
  BY <1>1 DEF Inv, Shapes, ObjectShape, Report, Same
<1>2. CASE x \in Zones /\ (AccessFails(x) \/ ReconcileFails(x) \/ LookupFails(x))
  BY <1>2, OperatorZoneStep
<1>3. CASE EntryLookupFails(x)
  BY <1>1, <1>3, BeginStep DEF EntryLookupFails
<1>4. ASSUME NEW w \in Workers, ServerLookupFails(w, x) PROVE Inv' /\ Keeps
  BY <1>1, <1>4, TakingStep DEF ServerLookupFails, Takes
<1>5. QED
  BY <1>2, <1>3, <1>4 DEF StartFails

\* The end of a request.
LEMMA WorkStep ==
    ASSUME Inv, NEW w \in Workers, Work(w)
    PROVE  Inv' /\ Keeps
<1>1. CASE UpdateStatus(w) /\ req[w].dirty
  BY <1>1, ReportingStep DEF UpdateStatus
<1>2. CASE UpdateStatus(w) /\ ~req[w].dirty
  BY <1>2, EndingStep DEF UpdateStatus
<1>3. CASE UpdateConflict(w) \/ WriteFails(w)
  BY <1>3, EndingStep DEF UpdateConflict, WriteFails, Requeue
<1>4. QED
  BY <1>1, <1>2, <1>3 DEF Work

\* Every step.
LEMMA NextStep ==
    ASSUME Inv, [Next]_vars
    PROVE  Inv' /\ Keeps
<1>1. CASE User
  BY <1>1, UserStep
<1>2. ASSUME NEW z \in Zones, Cluster(z) \/ DeploymentDown(z) PROVE Inv' /\ Keeps
  BY <1>2, QuietStep DEF Cluster, DeploymentUp, LoadBalancerReady, Repeat, DeploymentDown
<1>3. CASE TokenIssued \/ TokenRevoked \/ UNCHANGED vars
  BY <1>3, QuietStep DEF TokenIssued, TokenRevoked, vars
<1>4. QED
  BY <1>1, <1>2, <1>3, StartStep, StartFailsStep, WorkStep DEF Next

-----------------------------------------------------------------------------
(***************************************************************************)
(* A write of the status of an object does not take back what the other    *)
(* process reports in the meantime (in slave mode of the server).          *)
(***************************************************************************)
THEOREM ReportsKept == Spec => NoReportLost
<1>1. Init => Inv
  <2> SUFFICES ASSUME Init PROVE Inv
    OBVIOUS
  <2>1. PICK X \in SUBSET Objects : \E spec \in [X -> UNION {Inputs[x] : x \in X}] :
           objs = [x \in Objects |-> IF x \in X THEN NewObject(x, spec[x]) ELSE Absent]
    BY DEF Init
  <2>2. \A x \in Objects : objs[x] # Absent => ObjectShape(x, objs[x])
    BY <2>1, NewObjectShape
  <2>3. req = [w \in Workers |-> Idle]
    BY DEF Init
  <2>4. QED
    BY <2>1, <2>2, <2>3 DEF Inv, Shapes, Fresh
<1>2. Inv /\ [Next]_vars => Inv'
  BY NextStep
<1>3. Inv /\ [Next]_vars => Keeps
  BY NextStep
<1>4. Keeps => (Slave => \A w \in Workers :
         LET x == req[w].key
             foreign == IF w \in {"operator.zone", "operator.entry"} THEN {"server"}
                        ELSE {"valid", "runtime", "nameserver"} \cap DOMAIN req[w].status
         IN  req[w] # Idle /\ req'[w] = Idle /\ objs'[x] # objs[x]
             => \A c \in foreign : objs'[x].status[c] = objs[x].status[c])
  BY DEF Keeps, Foreign
<1>5. QED
  BY <1>1, <1>2, <1>3, <1>4, PTL DEF Spec, NoReportLost

-----------------------------------------------------------------------------
(* Types. *)

\* What a worker is for, and what belongs to an object of this name.
KeysOf(w) == IF w \in ZoneWorkers THEN Zones ELSE Entries
Kind(x) == IF x \in Zones THEN Zone ELSE Entry
StatusKind(x) == IF x \in Zones THEN ZoneStatus ELSE EntryStatus

\* A request is about an object its worker is for, and carries a status of
\* its kind.
RequestOK(w, r) ==
    /\ r \in Request
    /\ r.status \in StatusKind(r.key)
    /\ r.key \in KeysOf(w)

Requests(rq) ==
    /\ rq = [w \in Workers |-> rq[w]]
    /\ \A w \in Workers : rq[w] = Idle \/ RequestOK(w, rq[w])

ObjectsOf(os) ==
    /\ os = [x \in Objects |-> os[x]]
    /\ \A x \in Objects : os[x] = Absent \/ os[x] \in Kind(x)

Queues == {q \in [Workers -> SUBSET Objects] : \A w \in Workers : q[w] \subseteq KeysOf(w)}

EnvOK ==
    /\ secret \in {"none", "pending", "token"}
    /\ account \in BOOLEAN
    /\ depl \in [Zones -> Stages]
    /\ reachable \in SUBSET Zones
    /\ waits \in [Zones -> Reasons]
    /\ missed \in SUBSET Entries
    /\ used \in [edits : 0 .. MaxEdits, failures : 0 .. MaxFailures]

Typed == ObjectsOf(objs) /\ Requests(req) /\ queue \in Queues /\ EnvOK

\* Typed says more than TypeOK.
LEMMA TypedOK == Typed => TypeOK
<1> SUFFICES ASSUME Typed PROVE TypeOK
  OBVIOUS
<1>1. objs \in [Objects -> Zone \cup Entry \cup {Absent}]
  BY DEF Typed, ObjectsOf, Kind
<1>2. \A x \in Objects : objs[x] \in {Absent} \cup IF x \in Zones THEN Zone ELSE Entry
  BY DEF Typed, ObjectsOf, Kind
<1>3. req \in [Workers -> Request \cup {Idle}]
  BY DEF Typed, Requests, RequestOK
<1>4. QED
  BY <1>1, <1>2, <1>3 DEF Typed, Queues, EnvOK, TypeOK

\* The references in typed objects can be followed.
LEMMA TypedLinked == Typed => Linked(objs)
BY DEF Typed, ObjectsOf, Kind, Linked, Zone, Specs, Objects

\* The two kinds of objects.
LEMMA Kinds ==
    ASSUME Typed
    PROVE  /\ \A z \in Zones : z \in Objects /\ z \notin Entries
                               /\ (objs[z] # Absent => objs[z] \in Zone)
           /\ \A e \in Entries : e \in Objects /\ e \notin Zones
                                 /\ (objs[e] # Absent => objs[e] \in Entry)
           /\ NoZone \notin Objects
BY NamesAssumption, ReportingAssumption DEF Typed, ObjectsOf, Kind, Objects

\* What helpers return.
LEMMA ConditionType == \A b : Condition(b) \in Conditions
BY DEF Condition, Conditions

\* The summary of a status of a zone is one.
LEMMA SummaryType ==
    ASSUME NEW s \in ZoneStatus
    PROVE  summary(s) \in ZoneStatus
BY DEF summary, ZoneStatus, States

\* A status of a zone stays one when a condition is set.
LEMMA ZoneFieldTypes ==
    ASSUME NEW s \in ZoneStatus, NEW v \in Conditions
    PROVE  /\ [s EXCEPT !.valid = v] \in ZoneStatus
           /\ [s EXCEPT !.runtime = v] \in ZoneStatus
           /\ [s EXCEPT !.nameserver = v] \in ZoneStatus
           /\ [s EXCEPT !.server = v] \in ZoneStatus
BY DEF ZoneStatus

\* So does one that takes over the conditions of another.
LEMMA TransferType ==
    ASSUME NEW s \in ZoneStatus, NEW from \in ZoneStatus
    PROVE  transferConditions(s, from) \in ZoneStatus
<1> DEFINE q == [s EXCEPT !.runtime = from.runtime]
           r == [q EXCEPT !.nameserver = from.nameserver]
           t == [r EXCEPT !.valid = IF from.valid = "unknown" THEN "unknown" ELSE @]
<1>1. transferConditions(s, from) = summary(t)
  BY DEF transferConditions
<1>2. q \in ZoneStatus
  BY DEF ZoneStatus
<1> HIDE DEF q
<1>3. r \in ZoneStatus
  BY <1>2 DEF ZoneStatus
<1> HIDE DEF r
<1>4. t \in ZoneStatus
  BY <1>3 DEF ZoneStatus, Conditions
<1> HIDE DEF t
<1>5. QED
  BY <1>1, <1>4, SummaryType

\* The root zone that the walk finds is a zone.
LEMMA RootOfType ==
    ASSUME Typed, NEW z \in Zones, objs[z] # Absent, RootOf(z) # Absent
    PROVE  RootOf(z) \in Zone
<1> DEFINE info == GetRootInfo(objs, z)
<1>1. info.found /\ RootOf(z) = objs[info.root]
  BY DEF RootOf
<1>2. info.root \in Zones
  BY <1>1, TypedLinked, RootType
<1>3. QED
  BY <1>1, <1>2, Kinds

\* What the operator reports of a zone is a status of a zone.
LEMMA ZoneReportType ==
    ASSUME Typed, NEW z \in Zones, objs[z] # Absent
    PROVE  ZoneReport(z) \in ZoneStatus
<1> DEFINE s == objs[z].status
           valid == [s EXCEPT !.valid = "true"]
           invalid == [s EXCEPT !.valid = "false"]
           a == Condition(isDeploymentReady(z))
           b == Condition(isLoadBalancerReady(z))
           p == [valid EXCEPT !.runtime = a]
           q == [p EXCEPT !.nameserver = b]
<1>1. s \in ZoneStatus
  BY Kinds DEF Zone
<1>2. valid \in ZoneStatus /\ invalid \in ZoneStatus
  BY <1>1, ZoneFieldTypes DEF Conditions
<1>3. \/ ZoneReport(z) \in {s, valid, invalid}
      \/ RootOf(z) # Absent /\ ZoneReport(z) = transferConditions(valid, RootOf(z).status)
      \/ ZoneReport(z) = summary(q)
  BY DEF ZoneReport
<1> HIDE DEF valid, invalid
<1>4. p \in ZoneStatus
  BY <1>2, ZoneFieldTypes, ConditionType
<1> HIDE DEF p
<1>5. q \in ZoneStatus
  BY <1>4, ZoneFieldTypes, ConditionType
<1> HIDE DEF q
<1>6. RootOf(z) # Absent => RootOf(z).status \in ZoneStatus
  BY RootOfType DEF Zone
<1>7. QED
  BY <1>1, <1>2, <1>3, <1>5, <1>6, TransferType, SummaryType

\* What the server reports of a zone is a status of a zone.
LEMMA ServedType ==
    ASSUME NEW s \in ZoneStatus, NEW ok
    PROVE  Served(s, ok) \in ZoneStatus
<1>1. CASE IsMaster(s)
  BY <1>1 DEF Served, ZoneStatus, Conditions, States
<1>2. CASE ~IsMaster(s)
  BY <1>2, ZoneFieldTypes, ConditionType DEF Served
<1>3. QED
  BY <1>1, <1>2

\* A status of an entry stays one when a field is set.
LEMMA EntryFieldTypes ==
    ASSUME NEW s \in EntryStatus
    PROVE  /\ \A v \in Conditions : /\ [s EXCEPT !.valid = v] \in EntryStatus
                                    /\ [s EXCEPT !.server = v] \in EntryStatus
           /\ \A v \in Zones \cup {NoZone} : [s EXCEPT !.root = v] \in EntryStatus
           /\ \A v \in BOOLEAN : [s EXCEPT !.names = v] \in EntryStatus
           /\ \A v \in States : [s EXCEPT !.state = v] \in EntryStatus
<1>1. ASSUME NEW v \in Conditions
      PROVE  [s EXCEPT !.valid = v] \in EntryStatus /\ [s EXCEPT !.server = v] \in EntryStatus
  BY DEF EntryStatus
<1>2. ASSUME NEW v \in Zones \cup {NoZone} PROVE [s EXCEPT !.root = v] \in EntryStatus
  BY DEF EntryStatus
<1>3. ASSUME NEW v \in BOOLEAN PROVE [s EXCEPT !.names = v] \in EntryStatus
  BY DEF EntryStatus
<1>4. ASSUME NEW v \in States PROVE [s EXCEPT !.state = v] \in EntryStatus
  BY DEF EntryStatus
<1>5. QED
  BY <1>1, <1>2, <1>3, <1>4

\* The zone that an entry names is one, or none.
LEMMA EntryZone ==
    ASSUME Typed, NEW e \in Entries, objs[e] # Absent
    PROVE  /\ objs[e].status \in EntryStatus
           /\ objs[e].spec \in EntrySpecs /\ objs[e].spec.parent \in Zones \cup {NoZone}
           /\ \A z \in Zones : objs[z] # Absent => objs[z].status.state \in States
BY Kinds DEF Entry, EntrySpecs, Zone, ZoneStatus

\* What the operator reports of an entry is a status of an entry.
LEMMA EntryReportType ==
    ASSUME Typed, NEW e \in Entries, objs[e] # Absent
    PROVE  EntryReport(e) \in EntryStatus
<1> DEFINE s == objs[e].status
           zone == objs[e].spec.parent
<1>1. \/ EntryReport(e) = s
      \/ \E b, st : /\ EntryReport(e) = [s EXCEPT !.valid = Condition(b), !.state = st]
                    /\ st \in States
  <2>1. zone \in Zones /\ objs[zone] # Absent => objs[zone].status.state \in States
    BY EntryZone
  <2>2. PICK known, info, ours, b, st :
           /\ known = (zone # NoZone /\ objs[zone] # Absent)
           /\ info = IF known THEN responsibleForEntry(e) ELSE [found |-> FALSE, root |-> NoZone]
           /\ b = (ValidateEntryData(objs[e].spec) /\ info.found)
           /\ st = IF ~b THEN "Invalid"
                   ELSE IF s.server = "false" THEN "Problem"
                   ELSE IF objs[zone].status.state # "Ready" THEN objs[zone].status.state
                   ELSE IF s.root # info.root \/ ~s.names THEN "Pending"
                   ELSE "Ready"
           /\ EntryReport(e) =
                 IF ~ours THEN s ELSE [s EXCEPT !.valid = Condition(b), !.state = st]
    BY DEF EntryReport
  <2>3. b => zone \in Zones /\ objs[zone] # Absent
    BY <2>2, EntryZone
  <2>4. st \in States
    BY <2>1, <2>2, <2>3 DEF States
  <2>5. QED
    BY <2>2, <2>4
<1>2. s \in EntryStatus
  BY EntryZone
<1>3. ASSUME NEW b, NEW st \in States
      PROVE  [s EXCEPT !.valid = Condition(b), !.state = st] \in EntryStatus
  <2> DEFINE r == [s EXCEPT !.valid = Condition(b)]
             t == [r EXCEPT !.state = st]
  <2>1. r \in EntryStatus
    BY <1>2, EntryFieldTypes, ConditionType
  <2> HIDE DEF r
  <2>2. t \in EntryStatus
    BY <2>1, EntryFieldTypes
  <2>3. QED
    BY <2>2 DEF r
<1>4. ASSUME NEW b, NEW st \in States,
             EntryReport(e) = [s EXCEPT !.valid = Condition(b), !.state = st]
      PROVE  EntryReport(e) \in EntryStatus
  BY <1>3, <1>4
<1>5. QED
  BY <1>1, <1>2, <1>4

\* So is what the server writes when it serves the entry, ...
LEMMA EntryServedType ==
    ASSUME NEW s \in EntryStatus, NEW force, NEW root \in Zones \cup {NoZone}, NEW ok
    PROVE  EntryServed(s, force, root, ok) \in EntryStatus
<1> DEFINE w == [s EXCEPT !.valid = "unknown"]
           v == [w EXCEPT !.server = "unknown"]
           wiped == IF force /\ IsMaster(s) THEN v ELSE s
           r == [wiped EXCEPT !.root = root]
           n == [r EXCEPT !.names = (root # NoZone)]
           verdict == IF ok THEN "Ok" ELSE "Invalid"
           a == [n EXCEPT !.state = verdict]
           b == [n EXCEPT !.server = Condition(ok)]
<1>1. EntryServed(s, force, root, ok) \in {a, b}
  BY DEF EntryServed
<1>2. verdict \in States /\ "unknown" \in Conditions
  BY DEF States, Conditions
<1> HIDE DEF verdict
<1>3. w \in EntryStatus
  BY <1>2, EntryFieldTypes
<1> HIDE DEF w
<1>4. v \in EntryStatus
  BY <1>2, <1>3, EntryFieldTypes
<1> HIDE DEF v
<1>5. wiped \in EntryStatus
  BY <1>4
<1> HIDE DEF wiped
<1>6. r \in EntryStatus
  BY <1>5, EntryFieldTypes
<1> HIDE DEF r
<1>7. n \in EntryStatus
  BY <1>6, EntryFieldTypes
<1> HIDE DEF n
<1>8. a \in EntryStatus /\ b \in EntryStatus
  BY <1>2, <1>7, EntryFieldTypes, ConditionType
<1>9. QED
  BY <1>1, <1>8

\* ... when it does so no longer, ...
LEMMA DisownedType ==
    ASSUME NEW s \in EntryStatus, NEW root
    PROVE  Disowned(s, root) \in EntryStatus
<1> DEFINE r == [s EXCEPT !.root = NoZone]
           q == [r EXCEPT !.server = "unknown"]
           t == [q EXCEPT !.state = ""]
<1>1. Disowned(s, root) \in {s, t}
  BY DEF Disowned
<1>2. r \in EntryStatus
  BY EntryFieldTypes
<1> HIDE DEF r
<1>3. q \in EntryStatus
  BY <1>2, EntryFieldTypes DEF Conditions
<1> HIDE DEF q
<1>4. t \in EntryStatus
  BY <1>3, EntryFieldTypes DEF States
<1>5. QED
  BY <1>1, <1>4

\* ... and what it reports in all.
LEMMA EntryServiceType ==
    ASSUME Typed, NEW e \in Entries, objs[e] # Absent
    PROVE  EntryService(e) \in EntryStatus
<1> DEFINE s == objs[e].status
           zone == objs[e].spec.parent
           info == GetRootInfo(objs, zone)
<1>1. s \in EntryStatus /\ zone \in Zones \cup {NoZone}
  BY EntryZone
<1>2. zone # NoZone /\ objs[zone] # Absent /\ info.found => info.root \in Zones
  BY <1>1, TypedLinked, RootType
<1>3. \/ EntryService(e) = Disowned(s, info.root)
      \/ \E force, ok : EntryService(e) = EntryServed(s, force, NoZone, ok)
      \/ \E force, ok : EntryService(e) = EntryServed(s, force, zone, ok)
      \/ /\ \E force, ok : EntryService(e) = EntryServed(s, force, info.root, ok)
         /\ info.root \in Zones
  BY <1>2 DEF EntryService
<1> HIDE DEF info, s, zone
<1>4. QED
  BY <1>1, <1>3, DisownedType, EntryServedType

-----------------------------------------------------------------------------
(* Types are kept. *)

\* Workers only get keys of the kind they are for: by a write, ...
LEMMA NotifyType ==
    ASSUME NEW q \in Queues, NEW x \in Objects
    PROVE  Notify(q, x) \in Queues
<1>1. \A w \in Workers : Notify(q, x)[w] \subseteq KeysOf(w)
  BY ReportingAssumption DEF Notify, Queues, KeysOf, ZoneWorkers, EntryWorkers, Objects
<1>2. QED
  BY <1>1 DEF Notify, Queues

\* ... by a trigger, ...
LEMMA TriggerType ==
    ASSUME NEW q \in Queues, NEW z
    PROVE  OperatorTrigger(q, z) \in Queues /\ ServerTrigger(q, z) \in Queues
<1>1. Children(z) \subseteq Objects /\ EntriesOf(z) \subseteq Objects
  BY DEF Children, EntriesOf, Objects
<1>2. QED
  BY <1>1 DEF OperatorTrigger, ServerTrigger, Trigger, Queues, KeysOf, ZoneWorkers, Children,
              EntriesOf

\* ... and what is left when one is taken.
LEMMA RestType ==
    ASSUME Typed, NEW w, NEW x
    PROVE  Rest(w, x) \in Queues
BY DEF Typed, Rest, Queues

\* The triggers of the cluster wake zones only.
LEMMA WokenType ==
    ASSUME NEW q \in Queues, NEW zs, zs \subseteq Zones
    PROVE  Woken(q, zs) \in Queues /\ SecretTrigger(q, zs) \in Queues
BY DEF Woken, SecretTrigger, Queues, KeysOf, ZoneWorkers, Objects

\* The queues after a zone has been taken by the operator.
LEMMA AccessedType ==
    ASSUME Typed, NEW z \in Zones
    PROVE  Accessed(z) \in Queues
<1>1. Users \cup {z} \subseteq Zones
  BY DEF Users
<1>2. QED
  BY <1>1, RestType, WokenType DEF Accessed

\* What happens to the deployment of a zone.
LEMMA DeployedType ==
    ASSUME Typed, NEW z \in Zones, NEW b \in BOOLEAN
    PROVE  Deployed(z, b) \in [Zones -> Stages] /\ Requested(z) \in {"none", "pending", "token"}
BY DEF Deployed, Requested, Stages, Typed, EnvOK

\* A request in progress can be told from an idle worker.
LEMMA NotIdle ==
    ASSUME NEW w, NEW r, RequestOK(w, r)
    PROVE  r # Idle /\ r.key \in Objects /\ r \in Request
BY NamesAssumption, ReportingAssumption DEF RequestOK, Request, Idle, Objects

\* Requests stay requests when they become stale.
LEMMA OutdateType ==
    ASSUME Typed, NEW x \in Objects
    PROVE  Requests(Outdate(x))
<1>1. ASSUME NEW w \in Workers, RequestOK(w, req[w])
      PROVE  RequestOK(w, [req[w] EXCEPT !.stale = TRUE])
  BY <1>1, NotIdle DEF RequestOK, Request
<1>2. NoZone \notin Objects
  BY Kinds
<1>3. \A w \in Workers : req[w] = Idle \/ RequestOK(w, req[w])
  BY DEF Typed, Requests
<1>4. Outdate(x) = [w \in Workers |-> Outdate(x)[w]]
  BY DEF Outdate
<1>5. ASSUME NEW w \in Workers PROVE Outdate(x)[w] = Idle \/ RequestOK(w, Outdate(x)[w])
  <2>1. CASE req[w].key = x
    <3>1. req[w] # Idle
      BY <1>2, <2>1 DEF Idle
    <3>2. QED
      BY <1>1, <1>3, <2>1, <3>1 DEF Outdate
  <2>2. CASE req[w].key # x
    BY <1>3, <2>2 DEF Outdate
  <2>3. QED
    BY <2>1, <2>2
<1>6. QED
  BY <1>4, <1>5 DEF Requests

\* A request that starts is one.
LEMMA NewRequestType ==
    ASSUME NEW w, NEW x \in KeysOf(w),
           NEW s \in StatusKind(x), NEW b \in BOOLEAN
    PROVE  RequestOK(w, NewRequest(x, s, b))
BY DEF NewRequest, RequestOK, Request, StatusKind, KeysOf, Objects

\* A worker may get a request, and an object a new value.
LEMMA RequestsSet ==
    ASSUME NEW rq, Requests(rq), NEW w, NEW r, r = Idle \/ RequestOK(w, r)
    PROVE  Requests([rq EXCEPT ![w] = r])
BY DEF Requests

\* Objects stay typed when one is replaced by one of its kind.
LEMMA ObjectsSet ==
    ASSUME Typed, NEW x \in Objects, NEW o, o = Absent \/ o \in Kind(x)
    PROVE  ObjectsOf([objs EXCEPT ![x] = o])
BY DEF Typed, ObjectsOf

\* What users create is an object of its kind.
LEMMA NewObjectType ==
    ASSUME NEW x \in Objects, NEW s \in Inputs[x]
    PROVE  NewObject(x, s) \in Kind(x)
<1>1. CASE x \in Zones
  <2>1. s \in Specs
    BY <1>1, ReportingAssumption
  <2>2. QED
    BY <1>1, <2>1 DEF NewObject, Kind, Zone, ZoneStatus, Conditions, States
<1>2. CASE x \notin Zones
  <2>1. s \in EntrySpecs
    BY <1>2, ReportingAssumption DEF Objects
  <2>2. QED
    BY <1>2, <2>1 DEF NewObject, Kind, Entry, EntryStatus, Conditions, States
<1>3. QED
  BY <1>1, <1>2

\* The bounds.
LEMMA FailureType ==
    ASSUME Typed, Failure
    PROVE  used' \in [edits : 0 .. MaxEdits, failures : 0 .. MaxFailures]
BY ReportingAssumption DEF Typed, EnvOK, Failure

\* Edits stay within their bound, too.
LEMMA EditType ==
    ASSUME Typed, UserEdit
    PROVE  used' \in [edits : 0 .. MaxEdits, failures : 0 .. MaxFailures]
BY ReportingAssumption DEF Typed, EnvOK, UserEdit

\* Every object that is written reaches the queues, and outdates requests.
LEMMA WriteTyped ==
    ASSUME Typed, NEW x \in Objects, NEW o, o = Absent \/ o \in Kind(x), Write(x, o)
    PROVE  ObjectsOf(objs)' /\ Requests(req)' /\ (queue \in Queues)'
<1>1. ObjectsOf(objs')
  BY ObjectsSet DEF Write
<1>2. Requests(req')
  BY OutdateType DEF Write
<1>3. queue' \in Queues
  BY NotifyType DEF Write, Typed
<1>4. QED
  BY <1>1, <1>2, <1>3 DEF ObjectsOf, Requests

\* Users keep the types.
LEMMA UserTyped ==
    ASSUME Typed, User
    PROVE  Typed'
<1>1. ASSUME NEW x \in Objects, NEW s \in Inputs[x], Create(x, s) PROVE Typed'
  <2>1. NewObject(x, s) \in Kind(x)
    BY NewObjectType
  <2>2. QED
    BY <1>1, <2>1, WriteTyped, EditType DEF Create, Typed, EnvOK, env
<1>2. ASSUME NEW x \in Objects, NEW s \in Inputs[x], Update(x, s) PROVE Typed'
  <2> DEFINE o == [objs[x] EXCEPT !.spec = s]
  <2>1. objs[x] \in Kind(x)
    BY <1>2 DEF Update, Typed, ObjectsOf
  <2>2. o \in Kind(x)
    <3>1. CASE x \in Zones
      <4>1. s \in Specs
        BY <3>1, ReportingAssumption
      <4>2. QED
        BY <2>1, <3>1, <4>1 DEF Kind, Zone
    <3>2. CASE x \notin Zones
      <4>1. s \in EntrySpecs
        BY <3>2, ReportingAssumption DEF Objects
      <4>2. QED
        BY <2>1, <3>2, <4>1 DEF Kind, Entry
    <3>3. QED
      BY <3>1, <3>2
  <2>3. QED
    BY <1>2, <2>2, WriteTyped, EditType DEF Update, Typed, EnvOK, env
<1>3. ASSUME NEW x \in Objects, Delete(x) PROVE Typed'
  <2> DEFINE o == IF x \in Zones /\ objs[x].fin THEN [objs[x] EXCEPT !.deleting = TRUE]
                                                ELSE Absent
  <2>1. o = Absent \/ o \in Kind(x)
    BY <1>3 DEF Delete, Typed, ObjectsOf, Kind, Zone
  <2>2. Write(x, o)
    BY <1>3 DEF Delete
  <2>3. QED
    BY <1>3, <2>1, <2>2, WriteTyped, EditType DEF Delete, Typed, EnvOK, env
<1>4. QED
  BY <1>1, <1>2, <1>3 DEF User

\* A request of the operator about a zone starts, with or without the
\* finalizer being patched in, or has nothing to do.
LEMMA OperatorStartTyped ==
    ASSUME Typed, NEW z \in Zones, NEW s \in ZoneStatus, NEW b \in BOOLEAN,
           Takes("operator.zone", z), objs[z] # Absent, NEW q \in Queues,
           Handle(z, NewRequest(z, s, b), q)
    PROVE  ObjectsOf(objs)' /\ Requests(req)' /\ (queue \in Queues)'
<1> DEFINE w == "operator.zone"
           r == NewRequest(z, s, b)
<1>1. z \in Objects /\ w \in Workers /\ objs[z] \in Zone
  BY Kinds DEF Takes
<1>2. RequestOK(w, r)
  BY NewRequestType DEF KeysOf, ZoneWorkers, StatusKind
<1> HIDE DEF r
<1>3. CASE Claim(z, r, q)
  <2> DEFINE o == [objs[z] EXCEPT !.fin = TRUE]
  <2>1. o \in Kind(z)
    BY <1>1 DEF Kind, Zone
  <2>2. objs' = [objs EXCEPT ![z] = o]
    BY <1>3 DEF Claim
  <2> HIDE DEF o
  <2>3. ObjectsOf(objs')
    BY <1>1, <2>1, <2>2, ObjectsSet
  <2>4. Requests(req')
    BY <1>1, <1>2, <1>3, OutdateType, RequestsSet DEF Claim
  <2>5. queue' \in Queues
    BY <1>1, <1>3, NotifyType DEF Claim
  <2>6. QED
    BY <2>3, <2>4, <2>5 DEF ObjectsOf, Requests
<1>4. CASE Proceed(z, r, q)
  <2>1. Requests(req')
    BY <1>2, <1>4, RequestsSet DEF Typed, Proceed
  <2>2. queue' \in Queues
    BY <1>4, TriggerType DEF Proceed
  <2>3. objs' = objs
    BY <1>4 DEF Proceed
  <2>4. QED
    BY <2>1, <2>2, <2>3 DEF Typed, ObjectsOf, Requests
<1>5. QED
  BY <1>3, <1>4 DEF Handle, r

\* Requests of the operator about living zones keep the types, ...
LEMMA ReconcileTyped ==
    ASSUME Typed, NEW z \in Zones, Reconcile(z)
    PROVE  Typed'
<1> DEFINE s == ZoneReport(z)
<1>1. Takes("operator.zone", z) /\ objs[z] # Absent
  BY DEF Reconcile, Living
<1>2. s \in ZoneStatus
  BY <1>1, ZoneReportType
<1>3. Handle(z, NewRequest(z, s, FALSE), Accessed(z))
  BY DEF Reconcile
<1> HIDE DEF s
<1>4. ObjectsOf(objs)' /\ Requests(req)' /\ (queue \in Queues)'
  BY <1>1, <1>2, <1>3, AccessedType, OperatorStartTyped
<1>5. EnvOK'
  <2>1. /\ secret' = Requested(z) /\ account' = (account \/ Deploys(z))
        /\ depl' \in {depl, Deployed(z, secret = "token")}
        /\ \E v \in Reasons : waits' = [waits EXCEPT ![z] = v]
        /\ UNCHANGED <<reachable, missed, used>>
    BY DEF Reconcile, Reasons
  <2>2. account' \in BOOLEAN
    BY <2>1 DEF Typed, EnvOK
  <2>3. waits' \in [Zones -> Reasons]
    BY <2>1 DEF Typed, EnvOK
  <2>4. depl' \in [Zones -> Stages] /\ secret' \in {"none", "pending", "token"}
    BY <2>1, DeployedType DEF Typed, EnvOK
  <2>5. QED
    BY <2>1, <2>2, <2>3, <2>4 DEF Typed, EnvOK
<1>6. QED
  BY <1>4, <1>5 DEF Typed

\* ... also those that fail, ...
LEMMA ReconcileFailsTyped ==
    ASSUME Typed, NEW z \in Zones, ReconcileFails(z)
    PROVE  Typed'
<1>1. Takes("operator.zone", z) /\ objs[z] # Absent /\ objs[z].status \in ZoneStatus
  BY Kinds DEF ReconcileFails, Living, Zone
<1>2. PICK c \in {objs[z].status.runtime} \cup IF secret = "token" THEN {"false"} ELSE {} :
         Handle(z, NewRequest(z, [objs[z].status EXCEPT !.valid = "true", !.runtime = c], TRUE),
                Accessed(z))
  BY DEF ReconcileFails
<1> DEFINE v == [objs[z].status EXCEPT !.valid = "true"]
           t == [v EXCEPT !.runtime = c]
<1>3. c \in Conditions
  BY <1>1 DEF ZoneStatus, Conditions
<1>4. v \in ZoneStatus
  BY <1>1, ZoneFieldTypes DEF Conditions
<1>5. Handle(z, NewRequest(z, t, TRUE), Accessed(z))
  BY <1>2
<1> HIDE DEF v
<1>6. t \in ZoneStatus
  BY <1>3, <1>4, ZoneFieldTypes
<1> HIDE DEF t
<1>7. ObjectsOf(objs)' /\ Requests(req)' /\ (queue \in Queues)'
  BY <1>1, <1>5, <1>6, AccessedType, OperatorStartTyped
<1>8. EnvOK'
  <2>1. /\ secret' = Requested(z) /\ account' \in {account, TRUE}
        /\ depl' \in {Deployed(z, FALSE), Deployed(z, secret = "token")}
        /\ UNCHANGED <<reachable, waits, missed>> /\ Failure
    BY DEF ReconcileFails
  <2>2. depl' \in [Zones -> Stages] /\ secret' \in {"none", "pending", "token"}
    BY <2>1, DeployedType
  <2>3. QED
    BY <2>1, <2>2, FailureType DEF Typed, EnvOK
<1>9. QED
  BY <1>7, <1>8 DEF Typed

\* ... or do not get the secret, ...
LEMMA AccessFailsTyped ==
    ASSUME Typed, NEW z \in Zones, AccessFails(z)
    PROVE  Typed'
<1> DEFINE v == [objs[z].status EXCEPT !.valid = "true"]
           w == "operator.zone"
<1>1. Takes(w, z) /\ objs[z] # Absent /\ objs[z].status \in ZoneStatus
  BY Kinds DEF AccessFails, Living, Zone
<1>2. v \in ZoneStatus
  BY <1>1, ZoneFieldTypes DEF Conditions
<1>3. Handle(z, NewRequest(z, v, FALSE), Rest(w, z))
  BY DEF AccessFails
<1> HIDE DEF v
<1>4. ObjectsOf(objs)' /\ Requests(req)' /\ (queue \in Queues)'
  BY <1>1, <1>2, <1>3, RestType, OperatorStartTyped
<1>5. EnvOK'
  <2>1. /\ account' = TRUE /\ depl' = Deployed(z, FALSE)
        /\ waits' = [waits EXCEPT ![z] = "error"]
        /\ UNCHANGED <<secret, reachable, missed>> /\ Failure
    BY DEF AccessFails
  <2>2. waits' \in [Zones -> Reasons]
    BY <2>1 DEF Typed, EnvOK, Reasons
  <2>3. depl' \in [Zones -> Stages]
    BY <2>1, DeployedType
  <2>4. QED
    BY <2>1, <2>2, <2>3, FailureType DEF Typed, EnvOK
<1>6. QED
  BY <1>4, <1>5 DEF Typed

\* ... and those about deleted zones.
LEMMA DeletionTyped ==
    ASSUME Typed, NEW z \in Zones, ReconcileDeleting(z) \/ ReconcileDeleted(z)
    PROVE  Typed'
<1>1. z \in Objects
  BY DEF Objects
<1>2. Rest("operator.zone", z) \in Queues
  BY RestType
<1>3. EnvOK'
  <2>1. Undeploy(z) /\ UNCHANGED <<missed, used>>
    BY DEF ReconcileDeleting, ReconcileDeleted
  <2>2. QED
    BY <2>1 DEF Undeploy, Typed, EnvOK, Stages, Reasons
<1>4. CASE ReconcileDeleting(z)
  <2>1. ObjectsOf(objs')
    BY <1>1, <1>4, ObjectsSet DEF ReconcileDeleting
  <2>2. Requests(req')
    BY <1>1, <1>4, OutdateType DEF ReconcileDeleting
  <2>3. queue' \in Queues
    BY <1>1, <1>2, <1>4, NotifyType, TriggerType DEF ReconcileDeleting
  <2>4. QED
    BY <1>3, <2>1, <2>2, <2>3 DEF Typed, ObjectsOf, Requests
<1>5. CASE ReconcileDeleted(z)
  <2>1. queue' \in Queues
    BY <1>2, <1>5 DEF ReconcileDeleted, Queues, KeysOf, ZoneWorkers, EntriesOf, Objects, Typed
  <2>2. QED
    BY <1>3, <1>5, <2>1 DEF Typed, ObjectsOf, Requests, ReconcileDeleted
<1>6. QED
  BY <1>4, <1>5

\* Any other request that starts, or ends at once.
LEMMA TakingTyped ==
    ASSUME Typed, NEW w, NEW x \in KeysOf(w),
           NEW s \in StatusKind(x), NEW b \in BOOLEAN,
           objs' = objs, queue' = Rest(w, x),
           req' = req \/ req' = [req EXCEPT ![w] = NewRequest(x, s, b)]
    PROVE  ObjectsOf(objs)' /\ Requests(req)' /\ (queue \in Queues)'
<1>1. RequestOK(w, NewRequest(x, s, b))
  BY NewRequestType
<1>2. Requests(req')
  BY <1>1, RequestsSet DEF Typed
<1>3. QED
  BY <1>2, RestType DEF Typed, ObjectsOf, Requests

\* All requests that start keep the types, ...
LEMMA StartTyped ==
    ASSUME Typed, NEW w \in Workers, NEW x \in Objects, Start(w, x)
    PROVE  Typed'
<1>1. CASE x \in Zones /\ (Reconcile(x) \/ ReconcileDeleting(x) \/ ReconcileDeleted(x))
  BY <1>1, ReconcileTyped, DeletionTyped
<1>2. CASE x \in Zones /\ Serve(x)
  <2>1. PICK s : /\ Begin("server.zone", x, s)
                 /\ s = objs[x].status \/ \E ok : s = Served(objs[x].status, ok)
    BY <1>2 DEF Serve
  <2>2. s \in StatusKind(x)
    BY <1>2, <2>1, Kinds, ServedType DEF Serve, Living, Zone, StatusKind
  <2>3. ObjectsOf(objs)' /\ Requests(req)' /\ (queue \in Queues)'
    BY <1>2, <2>1, <2>2, TakingTyped DEF Serve, Begin, KeysOf, ZoneWorkers
  <2>4. QED
    BY <1>2, <2>3 DEF Serve, Typed, EnvOK, env
<1>3. CASE x \in Zones /\ TriggerStatusChanged(x)
  BY <1>3, RestType, TriggerType
     DEF TriggerStatusChanged, Typed, ObjectsOf, Requests, EnvOK, env
<1>4. CASE x \in Entries /\ (ReconcileEntry(x) \/ ServeEntry(x))
  <2>1. PICK v \in {"operator.entry", "server.entry"}, s \in {EntryReport(x), EntryService(x)} :
           Begin(v, x, s) /\ objs' = objs /\ objs[x] # Absent
    BY <1>4 DEF ReconcileEntry, ServeEntry
  <2>2. s \in StatusKind(x)
    BY <1>4, <2>1, Kinds, EntryReportType, EntryServiceType DEF StatusKind
  <2>3. ObjectsOf(objs)' /\ Requests(req)' /\ (queue \in Queues)'
    BY <1>4, <2>1, <2>2, TakingTyped DEF Begin, KeysOf, ZoneWorkers
  <2>4. QED
    BY <1>4, <2>3 DEF ReconcileEntry, ServeEntry, Typed, EnvOK, env
<1>5. CASE x \in Entries /\ EntryDeleted(w, x)
  BY <1>5, RestType DEF EntryDeleted, Typed, ObjectsOf, Requests, EnvOK, env
<1>6. QED
  BY <1>1, <1>2, <1>3, <1>4, <1>5 DEF Start

\* ... and those that fail at once, ...
LEMMA StartFailsTyped ==
    ASSUME Typed, NEW x \in Objects, StartFails(x)
    PROVE  Typed'
<1>1. objs[x] # Absent => objs[x].status \in StatusKind(x)
  BY DEF Typed, ObjectsOf, Kind, StatusKind, Zone, Entry
<1>2. CASE x \in Zones /\ (ReconcileFails(x) \/ AccessFails(x))
  BY <1>2, ReconcileFailsTyped, AccessFailsTyped
<1>3. CASE x \in Zones /\ LookupFails(x)
  <2>1. ObjectsOf(objs)' /\ Requests(req)' /\ (queue \in Queues)'
    BY <1>1, <1>3, TakingTyped DEF LookupFails, Living, KeysOf, ZoneWorkers
  <2>2. QED
    BY <1>3, <2>1, FailureType DEF LookupFails, Typed, EnvOK, env
<1>4. CASE x \in Entries /\ EntryLookupFails(x)
  <2>1. ObjectsOf(objs)' /\ Requests(req)' /\ (queue \in Queues)'
    BY <1>1, <1>4, TakingTyped DEF EntryLookupFails, Begin, KeysOf, ZoneWorkers
  <2>2. missed' = missed \cup {x} /\ UNCHANGED env /\ Failure
    BY <1>4 DEF EntryLookupFails
  <2>3. used' \in [edits : 0 .. MaxEdits, failures : 0 .. MaxFailures]
    BY <2>2, FailureType
  <2>4. missed' \in SUBSET Entries
    BY <1>4, <2>2 DEF Typed, EnvOK
  <2>5. EnvOK'
    BY <2>2, <2>3, <2>4 DEF Typed, EnvOK, env
  <2>6. QED
    BY <2>1, <2>5 DEF Typed
<1>5. ASSUME NEW w \in Workers, ServerLookupFails(w, x) PROVE Typed'
  <2>1. x \in KeysOf(w)
    BY <1>5 DEF ServerLookupFails, Takes, Typed, Queues
  <2>2. ObjectsOf(objs)' /\ Requests(req)' /\ (queue \in Queues)'
    BY <1>1, <1>5, <2>1, TakingTyped DEF ServerLookupFails
  <2>3. QED
    BY <1>5, <2>2, FailureType DEF ServerLookupFails, Typed, EnvOK, env
<1>6. QED
  BY <1>2, <1>3, <1>4, <1>5 DEF StartFails

\* ... and those that end, ...
LEMMA WorkTyped ==
    ASSUME Typed, NEW w \in Workers, Work(w)
    PROVE  Typed'
<1> DEFINE r == req[w]
           x == r.key
<1>1. r # Idle
  BY DEF Work, UpdateStatus, UpdateConflict, WriteFails
<1>2. RequestOK(w, r) /\ x \in Objects
  BY <1>1, NotIdle DEF Typed, Requests
<1>3. CASE UpdateStatus(w)
  <2>1. Notify(queue, x) \in Queues
    BY <1>2, NotifyType DEF Typed
  <2>2. PICK q \in Queues : queue' = [q EXCEPT ![w] = IF r.again THEN @ \cup {x} ELSE @]
    BY <1>3, <2>1, TriggerType DEF UpdateStatus, Finish, Typed
  <2>3. queue' \in Queues
    BY <1>2, <2>2 DEF Queues, RequestOK
  <2>4. CASE r.dirty
    <3> DEFINE o == [objs[x] EXCEPT !.status = r.status]
    <3>1. objs[x] \in Kind(x) /\ r.status \in StatusKind(x)
      BY <1>2, <1>3, <2>4 DEF UpdateStatus, Typed, ObjectsOf, RequestOK
    <3>2. o \in Kind(x)
      <4>1. CASE x \in Zones
        BY <3>1, <4>1 DEF Kind, StatusKind, Zone
      <4>2. CASE x \notin Zones
        BY <3>1, <4>2 DEF Kind, StatusKind, Entry
      <4>3. QED
        BY <4>1, <4>2
    <3>3. objs' = [objs EXCEPT ![x] = o]
      BY <1>3, <2>4 DEF UpdateStatus
    <3> HIDE DEF o
    <3>4. ObjectsOf(objs')
      BY <1>2, <3>2, <3>3, ObjectsSet
    <3>5. Requests(req')
      BY <1>2, <1>3, <2>4, OutdateType, RequestsSet DEF UpdateStatus
    <3>6. QED
      BY <1>3, <2>3, <3>4, <3>5
         DEF UpdateStatus, Typed, ObjectsOf, Requests, EnvOK, env
  <2>5. CASE ~r.dirty
    <3>1. Requests(req')
      BY <1>3, <2>5, RequestsSet DEF UpdateStatus, Typed
    <3>2. QED
      BY <1>3, <2>3, <2>5, <3>1
         DEF UpdateStatus, Typed, ObjectsOf, Requests, EnvOK, env
  <2>6. QED
    BY <2>4, <2>5
<1>4. CASE UpdateConflict(w) \/ WriteFails(w)
  <2>1. queue' \in Queues
    BY <1>2, <1>4 DEF UpdateConflict, WriteFails, Requeue, Typed, Queues, RequestOK
  <2>2. Requests(req')
    BY <1>4, RequestsSet DEF UpdateConflict, WriteFails, Requeue, Typed
  <2>3. EnvOK'
    BY <1>4, FailureType DEF UpdateConflict, WriteFails, Requeue, Typed, EnvOK, env
  <2>4. QED
    BY <1>4, <2>1, <2>2, <2>3
       DEF UpdateConflict, WriteFails, Requeue, Typed, ObjectsOf, Requests
<1>5. QED
  BY <1>3, <1>4 DEF Work

\* ... and so does the cluster.
LEMMA ClusterTyped ==
    ASSUME Typed, \/ TokenIssued \/ TokenRevoked
                  \/ \E z \in Zones : Cluster(z) \/ DeploymentDown(z)
    PROVE  Typed'
<1>1. queue \in Queues /\ Users \subseteq Zones
  BY DEF Typed, Users
<1>2. CASE TokenIssued \/ TokenRevoked
  <2>1. queue' \in Queues
    BY <1>1, <1>2, WokenType DEF TokenIssued, TokenRevoked
  <2>2. QED
    BY <1>2, <2>1 DEF TokenIssued, TokenRevoked, Typed, ObjectsOf, Requests, EnvOK
<1>3. ASSUME NEW z \in Zones, DeploymentUp(z) \/ DeploymentDown(z) PROVE Typed'
  <2>1. queue' \in Queues
    BY <1>1, <1>3, WokenType DEF DeploymentUp, DeploymentDown, OwnerTrigger
  <2>2. QED
    BY <1>3, <2>1, FailureType
       DEF DeploymentUp, DeploymentDown, Typed, ObjectsOf, Requests, EnvOK, Stages
<1>4. ASSUME NEW z \in Zones, LoadBalancerReady(z) PROVE Typed'
  BY <1>4 DEF LoadBalancerReady, Typed, ObjectsOf, Requests, EnvOK
<1>5. ASSUME NEW z \in Zones, Repeat(z) PROVE Typed'
  BY <1>1, <1>5, WokenType DEF Repeat, Typed, ObjectsOf, Requests, EnvOK, env
<1>6. QED
  BY <1>2, <1>3, <1>4, <1>5 DEF Cluster

\* Every step keeps the types.
LEMMA NextTyped ==
    ASSUME Typed, [Next]_vars
    PROVE  Typed'
<1>1. CASE UNCHANGED vars
  BY <1>1 DEF vars, Typed, ObjectsOf, Requests, EnvOK
<1>2. QED
  BY <1>1, UserTyped, StartTyped, StartFailsTyped, WorkTyped, ClusterTyped DEF Next

\* The types are right at the start.
LEMMA InitTyped ==
    ASSUME Init
    PROVE  Typed
<1>1. PICK X \in SUBSET Objects : \E spec \in [X -> UNION {Inputs[x] : x \in X}] :
         /\ \A x \in X : spec[x] \in Inputs[x]
         /\ objs = [x \in Objects |-> IF x \in X THEN NewObject(x, spec[x]) ELSE Absent]
  BY DEF Init
<1>2. PICK spec : /\ \A x \in X : spec[x] \in Inputs[x]
                  /\ objs = [x \in Objects |-> IF x \in X THEN NewObject(x, spec[x])
                                                          ELSE Absent]
  BY <1>1
<1>3. \A x \in Objects : \A s \in Inputs[x] : NewObject(x, s) \in Kind(x)
  BY NewObjectType
<1>4. ObjectsOf(objs)
  BY <1>2, <1>3 DEF ObjectsOf
<1>5. Requests(req)
  BY DEF Init, Requests
<1>6. queue \in Queues
  BY DEF Init, Queues, KeysOf, Objects
<1>7. EnvOK
  <2>1. /\ secret = "none" /\ account = FALSE /\ reachable = {} /\ missed = {}
        /\ waits = [z \in Zones |-> "none"]
        /\ depl = [z \in Zones |-> "none"] /\ used = [edits |-> 0, failures |-> 0]
    BY DEF Init
  <2>2. 0 \in 0 .. MaxEdits /\ 0 \in 0 .. MaxFailures
    BY ReportingAssumption
  <2>3. QED
    BY <2>1, <2>2 DEF EnvOK, Stages, Reasons
<1>8. QED
  BY <1>4, <1>5, <1>6, <1>7 DEF Typed

(***************************************************************************)
(* The variables have their types: every worker has a request of its kind  *)
(* of object, with a status of that kind, and writes no other one.         *)
(***************************************************************************)
THEOREM ReportingTypes == Spec => []TypeOK
<1>1. Init => Typed
  BY InitTyped
<1>2. Typed /\ [Next]_vars => Typed'
  BY NextTyped
<1>3. QED
  BY <1>1, <1>2, TypedOK, PTL DEF Spec

-----------------------------------------------------------------------------
(* What is left to do is waiting. *)

\* A request of worker w about object x is waiting or in progress.
Due(w, x) == x \in queue[w] \/ (req[w] # Idle /\ req[w].key = x)

Open(z) == Due("operator.zone", z)

\* What the last request of a living zone leaves behind.
RootShown(z) ==
    LET s == objs[z].status IN
    /\ ~AlnumFields(objs[z].spec) => s.valid = "false"
    /\ Ours(z) /\ ~Validate(objs, objs[z].spec) => s.valid = "false"
    /\ Deploys(z) => /\ s.valid = "true" /\ depl[z] # "none"
                     /\ waits[z] = "none" =>
                           /\ s = summary(s)
                           /\ s.runtime = Condition(isDeploymentReady(z))
                           /\ s.nameserver = "true" => isLoadBalancerReady(z)
                     /\ waits[z] = "token" /\ SameCluster => secret # "token"

NestedShown(z) ==
    LET s == objs[z].status
        r == RootOf(z).status
    IN  Ours(z) /\ Validate(objs, objs[z].spec) =>
        /\ s = summary(s)
        /\ s.runtime = r.runtime /\ s.nameserver = r.nameserver
        /\ s.valid = IF r.valid = "unknown" THEN "unknown" ELSE "true"

Shown(z) ==
    Living(z) => IF objs[z].spec.parent = NoZone THEN RootShown(z) ELSE NestedShown(z)

\* Every zone shows what it should, or a request will come along.
ZonesCovered ==
    \A z \in Zones : Shown(z) \/ \E w \in Passed(objs, z) : Open(w)

\* The environment of the deployment of z stays as the status tells it.
EnvSame(z) ==
    /\ depl'[z] = "up" <=> depl[z] = "up"
    /\ depl[z] # "none" => depl'[z] # "none"
    /\ z \in reachable => z \in reachable'
    /\ waits'[z] = waits[z]
    /\ SameCluster /\ secret' = "token" => secret = "token" \/ depl[z] = "none"

\* The references in typed objects can be followed, after a step.
LEMMA NextLinked == Typed' => Linked(objs')
BY DEF Typed, ObjectsOf, Kind, Linked, Zone, Specs, Objects

\* A zone still shows what it should if nothing changed on the way to its
\* root, and nothing that matters in the environment.
LEMMA ShownAgree ==
    ASSUME Typed, Typed', NEW z \in Zones, objs'[z] # Absent,
           \A w \in Passed(objs', z) : objs'[w] = objs[w],
           EnvSame(z), Shown(z)
    PROVE  Shown(z)'
<1> Linked(objs) /\ Linked(objs')
  BY TypedLinked, NextLinked
<1>1. z \in Passed(objs', z) /\ objs'[z] = objs[z] /\ objs[z] # Absent
  BY PassedLeast
<1>2. GetRootInfo(objs, z) = GetRootInfo(objs', z)
  BY RootAgree
<1> SUFFICES ASSUME Living(z)' PROVE Shown(z)'
  BY DEF Shown
<1>3. Living(z)
  BY <1>1 DEF Living
<1>4. CASE objs[z].spec.parent = NoZone
  <2>1. RootOf(z) = objs[z] /\ RootOf(z)' = objs'[z]
    BY <1>1, <1>4, RootInfoStep DEF RootOf
  <2>2. Ours(z)' <=> Ours(z)
    BY <1>1, <2>1 DEF Ours
  <2>3. Validate(objs, objs[z].spec)' <=> Validate(objs, objs[z].spec)
    BY <1>1, <1>4 DEF Validate
  <2>4. Deploys(z)' <=> Deploys(z)
    BY <1>1, <2>2, <2>3 DEF Deploys
  <2>5. RootShown(z)
    BY <1>3, <1>4 DEF Shown
  <2>6. RootShown(z)'
    BY <1>1, <2>2, <2>3, <2>4, <2>5 DEF RootShown, EnvSame, isDeploymentReady,
       isLoadBalancerReady
  <2>7. QED
    BY <1>1, <1>4, <2>6 DEF Shown
<1>5. CASE objs[z].spec.parent # NoZone
  <2> DEFINE p == objs[z].spec.parent
  <2>1. p \in Passed(objs', z)
    BY <1>1, <1>5, PassedLeast DEF Closed, Up
  <2>2. objs'[p] = objs[p]
    BY <2>1
  <2>3. RootOf(z)' = RootOf(z)
    <3>1. CASE GetRootInfo(objs, z).found
      <4>1. GetRootInfo(objs, z).root \in Passed(objs', z)
        BY <1>1, <1>2, <3>1, RootInfoCorrect, EndShared DEF ChainInfo
      <4>2. QED
        BY <1>2, <3>1, <4>1 DEF RootOf
    <3>2. CASE ~GetRootInfo(objs, z).found
      BY <1>2, <3>2 DEF RootOf
    <3>3. QED
      BY <3>1, <3>2
  <2>4. Ours(z)' <=> Ours(z)
    BY <1>1, <2>3 DEF Ours
  <2>5. Validate(objs, objs[z].spec)' <=> Validate(objs, objs[z].spec)
    BY <1>1, <2>2 DEF Validate
  <2>6. NestedShown(z)
    BY <1>3, <1>5 DEF Shown
  <2>7. NestedShown(z)'
    BY <1>1, <2>3, <2>4, <2>5, <2>6 DEF NestedShown
  <2>8. QED
    BY <1>1, <1>5, <2>7 DEF Shown
<1>6. QED
  BY <1>4, <1>5

\* What is covered stays so in steps that open what they change, and close
\* only what is shown, with the children waiting.
LEMMA ZonesStayCovered ==
    ASSUME Typed, Typed', ZonesCovered,
           \A y \in Zones : objs'[y] # objs[y] => Open(y)',
           \A y \in Zones : Open(y) /\ ~Open(y)' =>
               /\ Shown(y)'
               /\ objs[y] # Absent => \A c \in Children(y) : Open(c)',
           \A y \in Zones : Open(y)' \/ objs'[y] = Absent \/ Shown(y)' \/ EnvSame(y)
    PROVE  ZonesCovered'
<1> Linked(objs) /\ Linked(objs')
  BY TypedLinked, NextLinked
<1> SUFFICES ASSUME NEW z \in Zones, ~Shown(z)',
                    ~\E w \in Passed(objs', z) : Open(w)'
             PROVE  FALSE
  BY DEF ZonesCovered
<1>1. objs'[z] # Absent
  BY DEF Shown, Living
<1>2. /\ z \in Passed(objs', z) /\ Passed(objs', z) \subseteq Zones
      /\ \A w \in Passed(objs', z) : objs'[w] = objs[w]
  BY PassedLeast
<1>3. Passed(objs, z) = Passed(objs', z)
  BY <1>2, PassedAgree DEF Up
<1>4. EnvSame(z)
  BY <1>1, <1>2
<1>5. CASE Shown(z)
  BY <1>1, <1>2, <1>4, <1>5, ShownAgree
<1>6. ASSUME NEW w \in Passed(objs, z), Open(w) PROVE FALSE
  <2>1. w \in Zones /\ Open(w) /\ ~Open(w)' /\ w # z
    BY <1>2, <1>3, <1>6
  <2>2. objs[w] # Absent
    <3> SUFFICES ASSUME objs[w] = Absent PROVE FALSE
      OBVIOUS
    <3>1. ~GetRootInfo(objs', z).found
      BY <1>1, <1>2, <1>3, RootMissing
    <3>2. RootOf(z)' = Absent
      BY <3>1 DEF RootOf
    <3>3. objs'[z].spec.parent # NoZone
      BY <1>1, <3>1, RootInfoStep
    <3>4. Shown(z)'
      BY <3>2, <3>3 DEF Shown, NestedShown, Ours
    <3>5. QED
      BY <3>4
  <2>3. PICK c \in Passed(objs, z) : objs[c] # Absent /\ objs[c].spec.parent = w
    BY <2>1, PassedVia
  <2>4. c \in Children(w)
    BY <1>2, <1>3, <2>3 DEF Children
  <2>5. Open(c)'
    BY <2>1, <2>2, <2>4
  <2>6. QED
    BY <1>3, <2>5
<1>7. QED
  BY <1>5, <1>6 DEF ZonesCovered

-----------------------------------------------------------------------------
(* Entries. *)

EntryOpen(e) == Due("operator.entry", e)

EntryShown(e) ==
    /\ objs[e] # Absent /\ e \notin missed
    /\ objs[e].spec.parent # NoZone /\ objs[objs[e].spec.parent] # Absent
       => responsibleForEntry(e).found
    => objs[e].status = EntryReport(e)

\* Every entry shows what it should, or a request will come along, maybe
\* by way of one of its zone.
EntriesCovered ==
    \A e \in Entries :
        \/ EntryShown(e)
        \/ EntryOpen(e)
        \/ /\ objs[e] # Absent /\ objs[e].spec.parent # NoZone
           /\ \E w \in Passed(objs, objs[e].spec.parent) : Open(w)

\* The walk of the controller of entries ignores deletions.
Undeleted(os) ==
    [z \in Zones |-> IF os[z] = Absent THEN Absent ELSE [os[z] EXCEPT !.deleting = FALSE]]

ZonesIn(os) == \A z \in Zones : os[z] = Absent \/ os[z] \in Zone

\* The zones passed are the same, whether deletions are ignored or not.
LEMMA UndeletedZones ==
    ASSUME NEW os, ZonesIn(os)
    PROVE  /\ Linked(os) /\ Linked(Undeleted(os))
           /\ \A z \in Zones : /\ Undeleted(os)[z] = Absent <=> os[z] = Absent
                               /\ Up(Undeleted(os), z) = Up(os, z)
           /\ \A z \in Zones : Passed(Undeleted(os), z) = Passed(os, z)
<1>1. ASSUME NEW z \in Zones, os[z] # Absent
      PROVE  Undeleted(os)[z] \in Zone /\ Undeleted(os)[z].spec = os[z].spec
  BY <1>1 DEF Undeleted, Zone, ZonesIn
<1>2. ASSUME NEW z \in Zones, os[z] = Absent PROVE Undeleted(os)[z] = Absent
  BY <1>2 DEF Undeleted
<1>3. Absent \notin Zone
  BY ReportingAssumption
<1>4. Linked(os) /\ Linked(Undeleted(os))
  BY <1>1, <1>2, <1>3 DEF Linked, Zone, Specs, ZonesIn
<1>5. \A z \in Zones : Up(Undeleted(os), z) = Up(os, z)
  BY <1>1, <1>2, <1>3 DEF Up
<1>6. \A z \in Zones : Passed(Undeleted(os), z) = Passed(os, z)
  BY <1>5 DEF Passed, Closed
<1>7. QED
  BY <1>1, <1>2, <1>3, <1>4, <1>5, <1>6

\* Typed objects are zones where they are to be, ...
LEMMA TypedZones == Typed => ZonesIn(objs)
BY DEF Typed, ObjectsOf, Kind, Objects, ZonesIn

\* ... also after a step.
LEMMA NextZones == Typed' => ZonesIn(objs')
BY DEF Typed, ObjectsOf, Kind, Objects, ZonesIn

\* An entry still shows what it should if nothing changed on the way to the
\* root of its zone.
LEMMA EntryShownAgree ==
    ASSUME Typed, Typed', NEW e \in Entries, objs'[e] = objs[e], objs[e] # Absent,
           e \in missed => e \in missed',
           objs[e].spec.parent # NoZone
           => \A w \in Passed(objs', objs[e].spec.parent) : objs'[w] = objs[w],
           EntryShown(e)
    PROVE  EntryShown(e)'
<1> DEFINE zone == objs[e].spec.parent
           was == Undeleted(objs)
           is == Undeleted(objs')
<1> Linked(was) /\ Linked(is) /\ ZonesIn(objs) /\ ZonesIn(objs')
  BY TypedZones, NextZones, UndeletedZones
<1>1. zone \in Zones \cup {NoZone}
  BY EntryZone
<1>2. /\ responsibleForEntry(e) = GetRootInfo(was, zone)
      /\ responsibleForEntry(e)' = GetRootInfo(is, zone)
  BY DEF responsibleForEntry, Undeleted
<1>3. CASE zone = NoZone \/ objs[zone] = Absent
  <2>1. zone = NoZone \/ (objs[zone] = Absent /\ objs'[zone] = Absent)
    <3>1. zone # NoZone => zone \in Passed(objs', zone)
      BY <1>1, UndeletedZones, PassedLeast
    <3>2. QED
      BY <1>3, <3>1
  <2>2. EntryReport(e)' = EntryReport(e)
    BY <2>1 DEF EntryReport
  <2>3. QED
    BY <2>1, <2>2 DEF EntryShown
<1>4. CASE zone # NoZone /\ objs[zone] # Absent
  <2>1. zone \in Zones
    BY <1>1, <1>4
  <2>2. Passed(is, zone) = Passed(objs', zone) /\ zone \in Passed(objs', zone)
        /\ Passed(objs', zone) \subseteq Zones
    BY <2>1, UndeletedZones, PassedLeast
  <2>3. objs'[zone] = objs[zone]
    BY <1>4, <2>2
  <2>4. \A w \in Passed(is, zone) : was[w] = is[w]
    BY <1>4, <2>2 DEF Undeleted
  <2>5. is[zone] # Absent
    BY <1>4, <2>1, <2>3, UndeletedZones
  <2>6. GetRootInfo(was, zone) = GetRootInfo(is, zone)
    BY <2>1, <2>4, <2>5, RootAgree
  <2>7. responsibleForEntry(e)' = responsibleForEntry(e)
    BY <1>2, <2>6
  <2>8. responsibleForEntry(e).found
        => objs'[responsibleForEntry(e).root] = objs[responsibleForEntry(e).root]
    <3> SUFFICES ASSUME responsibleForEntry(e).found
                 PROVE  objs'[responsibleForEntry(e).root] = objs[responsibleForEntry(e).root]
      OBVIOUS
    <3>1. responsibleForEntry(e).root \in Passed(is, zone)
      BY <1>2, <2>1, <2>5, <2>6, RootInfoCorrect, EndShared DEF ChainInfo
    <3>2. QED
      BY <1>4, <2>2, <3>1
  <2>9. EntryReport(e)' = EntryReport(e)
    BY <2>3, <2>7, <2>8 DEF EntryReport
  <2>10. QED
    BY <2>3, <2>7, <2>9 DEF EntryShown
<1>5. QED
  BY <1>3, <1>4

\* Entries stay covered in steps that open what they change, and close a zone
\* only with what depends on it waiting, and an entry only if it is shown.
LEMMA EntriesStayCovered ==
    ASSUME Typed, Typed', EntriesCovered,
           \A y \in Zones : objs'[y] # objs[y] => Open(y)',
           \A y \in Zones : Open(y) /\ ~Open(y)' =>
               /\ objs[y] # Absent => \A c \in Children(y) : Open(c)'
               /\ \A e \in EntriesOf(y) : EntryOpen(e)',
           \A e \in Entries : objs'[e] # objs[e] => EntryOpen(e)',
           \A e \in Entries : e \in missed => e \in missed' \/ EntryShown(e)' \/ EntryOpen(e)',
           \A e \in Entries : EntryOpen(e) => EntryOpen(e)' \/ EntryShown(e)'
    PROVE  EntriesCovered'
<1> Linked(objs) /\ Linked(objs') /\ ZonesIn(objs) /\ ZonesIn(objs')
  BY TypedLinked, NextLinked, TypedZones, NextZones
<1> SUFFICES ASSUME NEW e \in Entries, ~EntryShown(e)', ~EntryOpen(e)'
             PROVE  /\ objs'[e] # Absent /\ objs'[e].spec.parent # NoZone
                    /\ \E w \in Passed(objs', objs'[e].spec.parent) : Open(w)'
  BY DEF EntriesCovered
<1> DEFINE zone == objs[e].spec.parent
<1>1. objs'[e] = objs[e] /\ objs[e] # Absent /\ (e \in missed => e \in missed')
  BY DEF EntryShown
<1>2. zone \in Zones \cup {NoZone}
  BY <1>1, EntryZone
<1> SUFFICES ASSUME zone # NoZone => ~\E w \in Passed(objs', zone) : Open(w)'
             PROVE  FALSE
  BY <1>1, EntryShownAgree DEF EntriesCovered
<1>3. zone # NoZone => /\ zone \in Passed(objs', zone) /\ Passed(objs', zone) \subseteq Zones
                       /\ \A w \in Passed(objs', zone) : objs'[w] = objs[w]
                       /\ Passed(objs, zone) = Passed(objs', zone)
  <2> SUFFICES ASSUME zone # NoZone
               PROVE  /\ zone \in Passed(objs', zone) /\ Passed(objs', zone) \subseteq Zones
                      /\ \A w \in Passed(objs', zone) : objs'[w] = objs[w]
                      /\ Passed(objs, zone) = Passed(objs', zone)
    OBVIOUS
  <2>1. zone \in Passed(objs', zone) /\ Passed(objs', zone) \subseteq Zones
    BY <1>2, PassedLeast
  <2>2. \A w \in Passed(objs', zone) : objs'[w] = objs[w]
    BY <2>1
  <2>3. QED
    BY <1>2, <2>1, <2>2, PassedAgree DEF Up
<1>4. ~EntryShown(e)
  BY <1>1, <1>3, EntryShownAgree
<1>5. ~EntryOpen(e)
  OBVIOUS
<1>6. PICK w \in Passed(objs, zone) : zone # NoZone /\ Open(w)
  BY <1>4, <1>5 DEF EntriesCovered
<1>7. w \in Zones /\ Open(w) /\ ~Open(w)'
  BY <1>3, <1>6
<1>8. CASE w = zone
  BY <1>1, <1>6, <1>7, <1>8 DEF EntriesOf
<1>9. CASE w # zone /\ objs[w] # Absent
  <2>1. PICK c \in Passed(objs, zone) : objs[c] # Absent /\ objs[c].spec.parent = w
    BY <1>2, <1>6, <1>9, PassedVia
  <2>2. c \in Children(w)
    BY <1>3, <1>6, <2>1 DEF Children
  <2>3. QED
    BY <1>3, <1>6, <1>7, <1>9, <2>1, <2>2
<1>10. CASE w # zone /\ objs[w] = Absent
  <2>1. zone \in Zones /\ objs'[w] = Absent /\ w \in Passed(objs', zone)
    BY <1>2, <1>3, <1>6, <1>10
  <2>2. Undeleted(objs')[w] = Absent /\ w \in Passed(Undeleted(objs'), zone)
    BY <2>1, <1>7, UndeletedZones
  <2>3. objs'[zone] = Absent \/ ~GetRootInfo(Undeleted(objs'), zone).found
    BY <2>1, <2>2, UndeletedZones, RootMissing
  <2>4. responsibleForEntry(e)' = GetRootInfo(Undeleted(objs'), zone)
    BY <1>1 DEF responsibleForEntry, Undeleted
  <2>5. CASE objs'[zone] # Absent
    BY <1>1, <1>6, <2>3, <2>4, <2>5 DEF EntryShown
  <2>6. CASE objs'[zone] = Absent
    <3>1. Passed(objs', zone) = {zone}
      BY <2>1, <2>6, PassedStep DEF Up
    <3>2. QED
      BY <1>10, <2>1, <3>1
  <2>7. QED
    BY <2>5, <2>6
<1>11. QED
  BY <1>8, <1>9, <1>10

-----------------------------------------------------------------------------
(* Steps as regards what is due. *)

\* Worker v goes on with what it is doing, maybe with more to come.
Kept(v) ==
    /\ queue[v] \subseteq queue'[v]
    /\ \/ req[v] = Idle /\ req'[v] = Idle
       \/ /\ req[v] # Idle /\ req'[v] # Idle
          /\ req'[v].key = req[v].key
          /\ req'[v].dirty = req[v].dirty /\ req'[v].again = req[v].again

\* A request that will neither write nor be repeated is to be followed by
\* another one.
Left(v) == req[v] # Idle => req[v].dirty \/ req[v].again \/ req[v].key \in queue[v]

AllLeft == \A v \in Workers : Left(v)

\* What the server reports of a root zone it is responsible for.
RootServed(z) ==
    Living(z) /\ objs[z].spec.parent = NoZone /\ Check(objs[z].spec, ServerClass, nil)
    => objs[z].status = Served(objs[z].status, ValidateZone(objs[z].spec))

RootsServed == \A z \in Zones : RootServed(z) \/ Due("server.zone", z)

\* Only root zones have the finalizer.
Claimed == \A z \in Zones : objs[z] # Absent /\ objs[z].fin => objs[z].spec.parent = NoZone

Settling ==
    /\ Typed /\ Claimed
    /\ AllLeft
    /\ "operator.zone" \in Workers => ZonesCovered
    /\ {"operator.zone", "operator.entry"} \subseteq Workers => EntriesCovered
    /\ "server.zone" \in Workers => RootsServed

\* What has been written is due.
Written == \A v \in Workers : \A x \in KeysOf(v) : objs'[x] # objs[x] => Due(v, x)'

EnvKept ==
    \A y \in Zones : \/ "operator.zone" \in Workers => Due("operator.zone", y)'
                     \/ objs'[y] = Absent
                     \/ Shown(y)'
                     \/ EnvSame(y)

\* What worker w has done when it is through with x.
Done(w, x) ==
    /\ w = "operator.zone" =>
          /\ Shown(x)'
          /\ objs[x] # Absent => Children(x) \subseteq queue'["operator.zone"]
          /\ "operator.entry" \in Workers => EntriesOf(x) \subseteq queue'["operator.entry"]
    /\ w = "operator.entry" => EntryShown(x)'
    /\ w = "server.zone" => RootServed(x)'

\* What is no longer due is done, and no more entries are missed.
Through == \A v \in Workers : \A y : Due(v, y) /\ ~Due(v, y)' => Done(v, y)

MissedShown ==
    "operator.entry" \in Workers =>
    \A e \in Entries : e \in missed =>
        e \in missed' \/ EntryShown(e)' \/ Due("operator.entry", e)'

\* What is due to a worker that goes on stays due.
LEMMA KeptDue ==
    ASSUME NEW v, Kept(v), Left(v)
    PROVE  (\A x : Due(v, x) => Due(v, x)') /\ Left(v)'
BY DEF Kept, Due, Left

\* What is covered stays so if what is written is due, and what is no longer
\* due is done.
LEMMA StepCovers ==
    ASSUME Settling, Typed', Claimed', Written, EnvKept,
           AllLeft', Through, MissedShown
    PROVE  Settling'
<1>1. Zones \subseteq KeysOf("operator.zone") /\ Zones \subseteq KeysOf("server.zone")
      /\ Entries \subseteq KeysOf("operator.entry")
  BY DEF KeysOf, ZoneWorkers
<1>2. ASSUME "operator.zone" \in Workers PROVE ZonesCovered'
  <2>1. ZonesCovered /\ Typed
    BY <1>2 DEF Settling
  <2>2. \A y \in Zones : objs'[y] # objs[y] => Open(y)'
    BY <1>1, <1>2 DEF Written, Open
  <2>3. \A y \in Zones : Open(y) /\ ~Open(y)' =>
           Shown(y)' /\ (objs[y] # Absent => \A c \in Children(y) : Open(c)')
    BY <1>2 DEF Open, Done, Due, Through
  <2>4. \A y \in Zones : Open(y)' \/ objs'[y] = Absent \/ Shown(y)' \/ EnvSame(y)
    BY <1>2 DEF EnvKept, Open
  <2>5. QED
    BY <2>1, <2>2, <2>3, <2>4, ZonesStayCovered
<1>3. ASSUME {"operator.zone", "operator.entry"} \subseteq Workers PROVE EntriesCovered'
  <2>1. EntriesCovered /\ Typed
    BY <1>3 DEF Settling
  <2>2. \A y \in Zones : objs'[y] # objs[y] => Open(y)'
    BY <1>1, <1>3 DEF Written, Open
  <2>3. \A y \in Zones : Open(y) /\ ~Open(y)' =>
           /\ objs[y] # Absent => \A c \in Children(y) : Open(c)'
           /\ \A e \in EntriesOf(y) : EntryOpen(e)'
    BY <1>3 DEF Open, EntryOpen, Done, Due, Through
  <2>4. \A e \in Entries : objs'[e] # objs[e] => EntryOpen(e)'
    BY <1>1, <1>3 DEF Written, EntryOpen
  <2>5. \A e \in Entries : EntryOpen(e) => EntryOpen(e)' \/ EntryShown(e)'
    BY <1>3 DEF EntryOpen, Done, Through
  <2>6. \A e \in Entries : e \in missed => e \in missed' \/ EntryShown(e)' \/ EntryOpen(e)'
    BY <1>3 DEF EntryOpen, MissedShown
  <2>7. QED
    BY <2>1, <2>2, <2>3, <2>4, <2>5, <2>6, EntriesStayCovered
<1>4. ASSUME "server.zone" \in Workers PROVE RootsServed'
  <2>1. RootsServed
    BY <1>4 DEF Settling
  <2>2. ASSUME NEW z \in Zones, ~Due("server.zone", z)' PROVE RootServed(z)'
    <3>1. objs'[z] = objs[z]
      BY <1>1, <1>4, <2>2 DEF Written
    <3>2. RootServed(z) => RootServed(z)'
      BY <3>1 DEF RootServed, Living
    <3>3. CASE Due("server.zone", z)
      BY <1>4, <2>2, <3>3 DEF Done, Through
    <3>4. QED
      BY <2>1, <3>2, <3>3 DEF RootsServed
  <2>3. QED
    BY <2>2 DEF RootsServed
<1>5. QED
  BY <1>2, <1>3, <1>4 DEF Settling

\* A step of worker w about x.
LEMMA WorkerCovers ==
    ASSUME Settling, Typed', Claimed', Written, EnvKept,
           NEW w \in Workers, NEW x \in KeysOf(w),
           \A v \in Workers \ {w} : Kept(v),
           \A y : y # x /\ Due(w, y) => Due(w, y)',
           Left(w)', Due(w, x)' \/ Done(w, x),
           \A e \in Entries : e \in missed => e \in missed' \/ (w = "operator.entry" /\ e = x)
    PROVE  Settling'
<1>1. \A v \in Workers \ {w} : Left(v)' /\ \A y : Due(v, y) => Due(v, y)'
  BY KeptDue DEF Settling, AllLeft
<1>2. Through
  BY <1>1 DEF Through
<1>3. w = "operator.entry" => EntryShown(x)' \/ Due("operator.entry", x)'
  BY DEF Done
<1>4. MissedShown
  BY <1>3 DEF MissedShown
<1>5. AllLeft'
  BY <1>1 DEF AllLeft
<1>6. QED
  BY <1>2, <1>4, <1>5, StepCovers

\* A step of somebody else.
LEMMA OthersCover ==
    ASSUME Settling, Typed', Claimed', Written, EnvKept,
           \A v \in Workers : Kept(v), missed' = missed
    PROVE  Settling'
<1>1. \A v \in Workers : Left(v)' /\ \A y : Due(v, y) => Due(v, y)'
  BY KeptDue DEF Settling, AllLeft
<1>2. AllLeft' /\ Through
  BY <1>1 DEF AllLeft, Through
<1>3. MissedShown
  BY DEF MissedShown
<1>4. QED
  BY <1>2, <1>3, StepCovers

\* The summary changes the state only, and nothing if repeated.
LEMMA SummaryFacts ==
    ASSUME NEW t \in ZoneStatus
    PROVE  /\ summary(t) \in ZoneStatus
           /\ summary(t).valid = t.valid /\ summary(t).runtime = t.runtime
           /\ summary(t).nameserver = t.nameserver /\ summary(t).server = t.server
           /\ summary(summary(t)) = summary(t)
<1> DEFINE st == IF t.valid # "true" \/ t.runtime # "true" \/ t.nameserver = "unknown"
                 THEN "Failed"
                 ELSE IF t.nameserver = "false" THEN "Pending"
                 ELSE IF t.server # "true" THEN "Failed"
                 ELSE "Ready"
           u == [t EXCEPT !.state = st]
<1>1. summary(t) = u
  BY DEF summary
<1>2. st \in States
  BY DEF States
<1> HIDE DEF st
<1>3. /\ u \in ZoneStatus /\ u.state = st
      /\ u.valid = t.valid /\ u.runtime = t.runtime
      /\ u.nameserver = t.nameserver /\ u.server = t.server
  BY <1>2 DEF ZoneStatus
<1> HIDE DEF u
<1>4. summary(u) = [u EXCEPT !.state = st]
  BY <1>3 DEF summary, st
<1>5. [u EXCEPT !.state = st] = u
  BY <1>3 DEF ZoneStatus
<1>6. QED
  BY <1>1, <1>3, <1>4, <1>5

\* A zone without parent is its own root.
LEMMA RootOfRoot ==
    ASSUME Typed, NEW z \in Zones, objs[z] # Absent, objs[z].spec.parent = NoZone
    PROVE  RootOf(z) = objs[z]
BY TypedLinked, RootInfoStep DEF RootOf

\* A root zone shows what a report would say, ...
LEMMA RootReported ==
    ASSUME Typed, NEW z \in Zones, Living(z), objs[z].spec.parent = NoZone,
           objs[z].status = ZoneReport(z)
    PROVE  LET s == objs[z].status IN
           /\ ~AlnumFields(objs[z].spec) => s.valid = "false"
           /\ Ours(z) /\ ~Validate(objs, objs[z].spec) => s.valid = "false"
           /\ Deploys(z) => /\ s.valid = "true"
                            /\ secret = "token" =>
                                  /\ s = summary(s)
                                  /\ s.runtime = Condition(isDeploymentReady(z))
                                  /\ s.nameserver = "true" => isLoadBalancerReady(z)
<1> DEFINE s == objs[z].status
           v == [s EXCEPT !.valid = "true"]
           i == [s EXCEPT !.valid = "false"]
           a == Condition(isDeploymentReady(z))
           b == Condition(isLoadBalancerReady(z))
           p == [v EXCEPT !.runtime = a]
           q == [p EXCEPT !.nameserver = b]
<1>1. RootOf(z) = objs[z] /\ RootOf(z) # Absent /\ s \in ZoneStatus
  BY RootOfRoot, Kinds DEF Living, Zone
<1>2. v.valid = "true" /\ i.valid = "false" /\ v \in ZoneStatus
  BY <1>1 DEF ZoneStatus, Conditions
<1>3. CASE ~AlnumFields(objs[z].spec)
  <2>1. s = i
    BY <1>3 DEF ZoneReport
  <2>2. s.valid = "false"
    BY <1>2, <2>1
  <2>3. QED
    BY <1>3, <2>2 DEF Deploys, Ours
<1>4. CASE Ours(z) /\ ~Validate(objs, objs[z].spec)
  <2>1. s = i
    BY <1>1, <1>4 DEF ZoneReport, Ours
  <2>2. s.valid = "false"
    BY <1>2, <2>1
  <2>3. QED
    BY <1>4, <2>2 DEF Deploys
<1>5. CASE Deploys(z) /\ secret # "token"
  <2>1. s = v
    BY <1>1, <1>5 DEF ZoneReport, Ours, Deploys
  <2>2. s.valid = "true"
    BY <1>2, <2>1
  <2>3. QED
    BY <1>5, <2>2 DEF Deploys, Ours
<1>6. CASE Deploys(z) /\ secret = "token"
  <2>1. s = summary(q)
    BY <1>1, <1>6 DEF ZoneReport, Ours, Deploys
  <2>2. a \in Conditions /\ b \in Conditions /\ (b = "true" => isLoadBalancerReady(z))
    BY ConditionType DEF Condition
  <2> HIDE DEF a, b, v
  <2>3. p \in ZoneStatus /\ p.valid = v.valid /\ p.runtime = a
    BY <1>2, <2>2 DEF ZoneStatus
  <2> HIDE DEF p
  <2>4. q \in ZoneStatus /\ q.valid = p.valid /\ q.runtime = p.runtime /\ q.nameserver = b
    BY <2>2, <2>3 DEF ZoneStatus
  <2> HIDE DEF q, s
  <2>5. /\ s.valid = "true" /\ s = summary(s) /\ s.runtime = a
        /\ s.nameserver = "true" => isLoadBalancerReady(z)
    BY <1>2, <2>1, <2>2, <2>3, <2>4, SummaryFacts
  <2>6. QED
    BY <1>6, <2>5 DEF Deploys, Ours, s, a
<1>7. QED
  BY <1>3, <1>4, <1>5, <1>6 DEF Deploys

\* ... and a nested zone, too.
LEMMA NestedReported ==
    ASSUME Typed, NEW z \in Zones, Living(z), objs[z].spec.parent # NoZone,
           objs[z].status = ZoneReport(z)
    PROVE  NestedShown(z)
<1> SUFFICES ASSUME Ours(z), Validate(objs, objs[z].spec)
             PROVE  LET s == objs[z].status
                        r == RootOf(z).status
                    IN  /\ s = summary(s)
                        /\ s.runtime = r.runtime /\ s.nameserver = r.nameserver
                        /\ s.valid = IF r.valid = "unknown" THEN "unknown" ELSE "true"
  BY DEF NestedShown
<1> DEFINE s == objs[z].status
           f == RootOf(z).status
           v == [s EXCEPT !.valid = "true"]
           q == [v EXCEPT !.runtime = f.runtime]
           r == [q EXCEPT !.nameserver = f.nameserver]
           t == [r EXCEPT !.valid = IF f.valid = "unknown" THEN "unknown" ELSE @]
<1>1. s = transferConditions(v, f)
  BY DEF ZoneReport, Ours
<1>2. s = summary(t)
  BY <1>1 DEF transferConditions
<1>3. s \in ZoneStatus /\ f \in ZoneStatus
  BY Kinds, RootOfType DEF Living, Zone, Ours
<1> HIDE DEF f
<1>4. v \in ZoneStatus /\ v.valid = "true"
  BY <1>3 DEF ZoneStatus, Conditions
<1> HIDE DEF v
<1>5. q \in ZoneStatus /\ q.valid = v.valid /\ q.runtime = f.runtime
  BY <1>3, <1>4 DEF ZoneStatus
<1> HIDE DEF q
<1>6. r \in ZoneStatus /\ r.valid = q.valid /\ r.runtime = q.runtime
      /\ r.nameserver = f.nameserver
  BY <1>3, <1>5 DEF ZoneStatus
<1> HIDE DEF r
<1>7. /\ t \in ZoneStatus /\ t.runtime = r.runtime /\ t.nameserver = r.nameserver
      /\ t.valid = IF f.valid = "unknown" THEN "unknown" ELSE r.valid
  BY <1>6 DEF ZoneStatus, Conditions
<1> HIDE DEF t, s
<1>8. /\ s.valid = t.valid /\ s.runtime = t.runtime /\ s.nameserver = t.nameserver
      /\ summary(s) = s
  BY <1>2, <1>7, SummaryFacts
<1>9. QED
  BY <1>4, <1>5, <1>6, <1>7, <1>8 DEF s, f

-----------------------------------------------------------------------------
(* The steps. *)

\* Queues only grow where nobody takes from them.
LEMMA Growing ==
    ASSUME NEW q \in Queues
    PROVE  /\ \A x \in Objects : \A v \in Workers :
                 /\ q[v] \subseteq Notify(q, x)[v]
                 /\ x \in KeysOf(v) => x \in Notify(q, x)[v]
           /\ \A z : \A v \in Workers :
                 /\ q[v] \subseteq OperatorTrigger(q, z)[v]
                 /\ q[v] \subseteq ServerTrigger(q, z)[v]
                 /\ v = "operator.zone" => Children(z) \subseteq OperatorTrigger(q, z)[v]
                 /\ v = "operator.entry" => EntriesOf(z) \subseteq OperatorTrigger(q, z)[v]
<1>1. \A x \in Objects : \A v \in Workers :
         /\ q[v] \subseteq Notify(q, x)[v]
         /\ x \in KeysOf(v) => x \in Notify(q, x)[v]
  BY ReportingAssumption DEF Notify, KeysOf, ZoneWorkers, EntryWorkers, Objects
<1>2. \A z : \A v \in Workers :
         /\ q[v] \subseteq OperatorTrigger(q, z)[v]
         /\ q[v] \subseteq ServerTrigger(q, z)[v]
         /\ v = "operator.zone" => Children(z) \subseteq OperatorTrigger(q, z)[v]
         /\ v = "operator.entry" => EntriesOf(z) \subseteq OperatorTrigger(q, z)[v]
  BY DEF OperatorTrigger, ServerTrigger, Trigger
<1>3. QED
  BY <1>1, <1>2

\* Requests go on when their object is written.
LEMMA Outdating ==
    ASSUME Typed, NEW x \in Objects
    PROVE  \A v \in Workers :
              /\ req[v] = Idle => Outdate(x)[v] = Idle
              /\ req[v] # Idle => /\ Outdate(x)[v] # Idle
                                  /\ Outdate(x)[v].key = req[v].key
                                  /\ Outdate(x)[v].dirty = req[v].dirty
                                  /\ Outdate(x)[v].again = req[v].again
<1>1. ASSUME NEW v \in Workers, req[v] = Idle PROVE Outdate(x)[v] = Idle
  <2>1. req[v].key # x
    BY <1>1, Kinds DEF Idle
  <2>2. QED
    BY <1>1, <2>1 DEF Outdate
<1>2. ASSUME NEW v \in Workers, req[v] # Idle
      PROVE  /\ Outdate(x)[v] # Idle
             /\ Outdate(x)[v].key = req[v].key
             /\ Outdate(x)[v].dirty = req[v].dirty /\ Outdate(x)[v].again = req[v].again
  <2>1. RequestOK(v, req[v])
    BY <1>2 DEF Typed, Requests
  <2>2. req[v] \in Request /\ req[v].key \in Objects
    BY <2>1, NotIdle
  <2>3. Outdate(x)[v] \in {req[v], [req[v] EXCEPT !.stale = TRUE]}
    BY DEF Outdate
  <2>4. /\ Outdate(x)[v].key = req[v].key
        /\ Outdate(x)[v].dirty = req[v].dirty /\ Outdate(x)[v].again = req[v].again
    BY <2>2, <2>3 DEF Request
  <2>5. Outdate(x)[v] # Idle
    BY <2>2, <2>4, Kinds DEF Idle
  <2>6. QED
    BY <2>4, <2>5
<1>3. QED
  BY <1>1, <1>2

\* A request that is new is no idle worker.
LEMMA NewRequestFields ==
    ASSUME Typed, NEW x \in Objects, NEW s, NEW b \in BOOLEAN
    PROVE  LET r == NewRequest(x, s, b) IN
           /\ r # Idle /\ r.key = x /\ r.again = b
           /\ r.dirty <=> s # objs[x].status
BY Kinds DEF NewRequest, Idle

\* Objects of users.
LEMMA WriteCovers ==
    ASSUME Settling, Typed', NEW x \in Objects, NEW o, Write(x, o),
           x \in Zones /\ o # Absent => (o.fin => o.spec.parent = NoZone),
           UNCHANGED <<env, missed>>
    PROVE  Settling'
<1>1. Typed /\ queue \in Queues
  BY DEF Settling, Typed
<1>2. \A y \in Objects : objs'[y] = IF y = x THEN o ELSE objs[y]
  BY <1>1 DEF Write, Typed, ObjectsOf
<1>3. \A v \in Workers : Kept(v)
  BY <1>1, Growing, Outdating DEF Write, Kept
<1>4. Written
  <2>1. \A v \in Workers : KeysOf(v) \subseteq Objects
    BY DEF KeysOf, Objects
  <2>2. QED
    BY <1>1, <1>2, <2>1, Growing DEF Written, Write, Due
<1>5. EnvKept /\ missed' = missed
  BY DEF env, EnvKept, EnvSame
<1>6. Claimed'
  BY <1>2 DEF Settling, Claimed, Objects
<1>7. QED
  BY <1>3, <1>4, <1>5, <1>6, OthersCover

\* Users only write.
LEMMA UserCovers ==
    ASSUME Settling, Typed', User
    PROVE  Settling'
<1>1. ASSUME NEW x \in Objects, NEW s \in Inputs[x], Create(x, s) PROVE Settling'
  <2>1. x \in Zones => ~NewObject(x, s).fin
    BY DEF NewObject
  <2>2. Write(x, NewObject(x, s)) /\ UNCHANGED <<env, missed>>
    BY <1>1 DEF Create, env
  <2>3. QED
    BY <2>1, <2>2, WriteCovers
<1>2. ASSUME NEW x \in Objects, NEW s \in Inputs[x], Update(x, s) PROVE Settling'
  <2> DEFINE o == [objs[x] EXCEPT !.spec = s]
  <2>1. Write(x, o) /\ UNCHANGED <<env, missed>>
    BY <1>2 DEF Update, env
  <2>2. x \in Zones => (o.fin => o.spec.parent = NoZone)
    <3> SUFFICES ASSUME x \in Zones PROVE o.fin => o.spec.parent = NoZone
      OBVIOUS
    <3>1. objs[x] \in Zone /\ (objs[x].fin => objs[x].spec.parent = NoZone)
      BY <1>2, Kinds DEF Update, Settling, Claimed
    <3>2. s.parent = objs[x].spec.parent
      BY <1>2, <3>1 DEF Update, Zone, Specs
    <3>3. o.fin = objs[x].fin /\ o.spec = s
      BY <3>1 DEF Zone
    <3>4. QED
      BY <3>1, <3>2, <3>3
  <2> HIDE DEF o
  <2>3. QED
    BY <2>1, <2>2, WriteCovers
<1>3. ASSUME NEW x \in Objects, Delete(x) PROVE Settling'
  <2> DEFINE o == IF x \in Zones /\ objs[x].fin THEN [objs[x] EXCEPT !.deleting = TRUE]
                                                ELSE Absent
  <2>1. Write(x, o) /\ UNCHANGED <<env, missed>>
    BY <1>3 DEF Delete, env
  <2>2. x \in Zones /\ o # Absent => (o.fin => o.spec.parent = NoZone)
    <3> SUFFICES ASSUME x \in Zones, objs[x].fin PROVE o.spec.parent = NoZone
      OBVIOUS
    <3>1. objs[x] \in Zone /\ objs[x].spec.parent = NoZone
      BY <1>3, Kinds DEF Delete, Settling, Claimed
    <3>2. QED
      BY <3>1 DEF Zone
  <2> HIDE DEF o
  <2>3. QED
    BY <2>1, <2>2, WriteCovers
<1>4. QED
  BY <1>1, <1>2, <1>3 DEF User

\* The cluster wakes the operator for what its status would show.
LEMMA ClusterCovers ==
    ASSUME Settling, Typed', \/ TokenIssued \/ TokenRevoked
                             \/ \E z \in Zones : Cluster(z) \/ DeploymentDown(z)
    PROVE  Settling'
<1>1. Typed /\ queue \in Queues /\ depl \in [Zones -> Stages]
  BY DEF Settling, Typed, EnvOK
<1>2. ASSUME objs' = objs, req' = req, missed' = missed,
             \A v \in Workers : queue[v] \subseteq queue'[v],
             EnvKept
      PROVE  Settling'
  <2>1. (\A v \in Workers : Kept(v)) /\ Written /\ Claimed'
    BY <1>2 DEF Kept, Written, Settling, Claimed
  <2>2. QED
    BY <1>2, <2>1, OthersCover
<1>3. ASSUME NEW zs, queue' = Woken(queue, zs)
      PROVE  /\ \A v \in Workers : queue[v] \subseteq queue'[v]
             /\ "operator.zone" \in Workers => \A z \in zs : Due("operator.zone", z)'
  BY <1>3 DEF Woken, Due
<1>4. CASE TokenIssued \/ TokenRevoked
  <2>1. /\ queue' = SecretTrigger(queue, Users)
        /\ UNCHANGED <<objs, req, depl, reachable, waits, missed>>
    BY <1>4 DEF TokenIssued, TokenRevoked
  <2>2. CASE SameCluster
    <3>1. queue' = Woken(queue, Users)
      BY <2>1, <2>2 DEF SecretTrigger
    <3>2. "operator.zone" \in Workers =>
             \A y \in Zones : depl[y] # "none" => Due("operator.zone", y)'
      BY <1>3, <3>1 DEF Users
    <3>3. EnvKept
      BY <2>1, <3>2 DEF EnvKept, EnvSame
    <3>4. QED
      BY <1>2, <1>3, <2>1, <3>1, <3>3
  <2>3. CASE ~SameCluster
    <3>1. queue' = queue
      BY <2>1, <2>3 DEF SecretTrigger
    <3>2. EnvKept
      BY <2>1, <2>3 DEF EnvKept, EnvSame
    <3>3. QED
      BY <1>2, <2>1, <3>1, <3>2
  <2>4. QED
    BY <2>2, <2>3
<1>5. ASSUME NEW z \in Zones, DeploymentUp(z) \/ DeploymentDown(z) PROVE Settling'
  <2>1. /\ queue' = Woken(queue, {z}) /\ UNCHANGED <<secret, reachable, waits>>
        /\ \A y \in Zones \ {z} : depl'[y] = depl[y]
    BY <1>1, <1>5 DEF DeploymentUp, DeploymentDown, OwnerTrigger
  <2>2. EnvKept
    BY <1>3, <2>1 DEF EnvKept, EnvSame
  <2>3. QED
    BY <1>2, <1>3, <1>5, <2>1, <2>2 DEF DeploymentUp, DeploymentDown
<1>6. ASSUME NEW z \in Zones, LoadBalancerReady(z) PROVE Settling'
  <2>1. EnvKept
    BY <1>6 DEF LoadBalancerReady, EnvKept, EnvSame
  <2>2. QED
    BY <1>2, <1>6, <2>1 DEF LoadBalancerReady
<1>7. ASSUME NEW z \in Zones, Repeat(z) PROVE Settling'
  <2>1. EnvKept
    BY <1>7 DEF Repeat, env, EnvKept, EnvSame
  <2>2. QED
    BY <1>2, <1>3, <1>7, <2>1 DEF Repeat
<1>8. QED
  BY <1>4, <1>5, <1>6, <1>7 DEF Cluster

\* A worker takes x from its queue, without a write: a request is on its
\* way, or all is done.
LEMMA TakingCovers ==
    ASSUME Settling, Typed', NEW w \in Workers, NEW x \in KeysOf(w), Takes(w, x),
           objs' = objs,
           \A v \in Workers \ {w} : queue[v] \subseteq queue'[v] /\ req'[v] = req[v],
           queue[w] \ {x} \subseteq queue'[w],
           \/ req'[w] # Idle /\ req'[w].key = x /\ (req'[w].dirty \/ req'[w].again)
           \/ req'[w] = Idle /\ Done(w, x),
           EnvKept,
           \A e \in Entries : e \in missed => e \in missed' \/ (w = "operator.entry" /\ e = x)
    PROVE  Settling'
<1>1. \A v \in Workers \ {w} : Kept(v)
  BY DEF Kept
<1>2. \A y : y # x /\ Due(w, y) => Due(w, y)'
  BY DEF Due, Takes
<1>3. Left(w)' /\ (Due(w, x)' \/ Done(w, x))
  BY DEF Left, Due
<1>4. Written /\ Claimed'
  BY DEF Written, Settling, Claimed
<1>5. QED
  BY <1>1, <1>2, <1>3, <1>4, WorkerCovers

\* The finalizer is patched in: the zone is written, and a request begins.
LEMMA ClaimCovers ==
    ASSUME Settling, Typed', NEW z \in Zones, NEW s, NEW b \in BOOLEAN, NEW q \in Queues,
           Takes("operator.zone", z), Living(z), Claims(z),
           Claim(z, NewRequest(z, s, b), q),
           \A v \in Workers : Rest("operator.zone", z)[v] \subseteq q[v],
           \A y \in Zones \ {z} : EnvSame(y), missed' = missed
    PROVE  Settling'
<1> DEFINE w == "operator.zone"
           r == NewRequest(z, s, b)
           o == [objs[z] EXCEPT !.fin = TRUE]
<1>1. /\ Typed /\ queue \in Queues /\ z \in Objects /\ z \in KeysOf(w) /\ w \in Workers
      /\ objs[z] \in Zone /\ req[w] = Idle
  BY Kinds DEF Settling, Typed, Takes, Living, KeysOf, ZoneWorkers
<1>2. r # Idle /\ r.key = z
  BY <1>1, NewRequestFields
<1>3. /\ objs' = [objs EXCEPT ![z] = o]
      /\ queue' = Notify(q, z)
      /\ req' = [Outdate(z) EXCEPT ![w] = r]
  BY DEF Claim
<1>4. o.spec.parent = NoZone
  BY <1>1 DEF Claims, Zone
<1> HIDE DEF o, r
<1>5. \A y \in Objects : objs'[y] = IF y = z THEN o ELSE objs[y]
  BY <1>1, <1>3 DEF Typed, ObjectsOf
<1>6. /\ req'[w] = r
      /\ \A v \in Workers \ {w} : req'[v] = Outdate(z)[v]
  <2>1. Outdate(z) = [v \in Workers |-> Outdate(z)[v]]
    BY DEF Outdate
  <2>2. QED
    BY <1>1, <1>3, <2>1
<1>7. /\ \A v \in Workers \ {w} : Rest(w, z)[v] = queue[v]
      /\ Rest(w, z)[w] = queue[w] \ {z}
  BY <1>1 DEF Rest, Queues
<1>8. \A v \in Workers : /\ Rest(w, z)[v] \subseteq queue'[v]
                         /\ z \in KeysOf(v) => z \in queue'[v]
  <2>1. \A v \in Workers : q[v] \subseteq queue'[v] /\ (z \in KeysOf(v) => z \in queue'[v])
    BY <1>1, <1>3, Growing
  <2>2. QED
    BY <2>1
<1>9. \A v \in Workers \ {w} : Kept(v)
  BY <1>1, <1>6, <1>7, <1>8, Outdating DEF Kept
<1>10. Written
  <2>1. \A v \in Workers : KeysOf(v) \subseteq Objects
    BY DEF KeysOf, Objects
  <2>2. QED
    BY <1>5, <1>8, <2>1 DEF Written, Due
<1>11. Claimed'
  BY <1>4, <1>5 DEF Settling, Claimed, Objects
<1>12. \A y : y # z /\ Due(w, y) => Due(w, y)'
  BY <1>1, <1>7, <1>8 DEF Due
<1>13. Left(w)' /\ Due(w, z)'
  BY <1>1, <1>2, <1>6, <1>8 DEF Left, Due
<1>14. EnvKept
  BY <1>13 DEF EnvKept
<1>15. QED
  BY <1>1, <1>9, <1>10, <1>11, <1>12, <1>13, <1>14, WorkerCovers

\* A request of the operator about a living zone that writes, or is to be
\* repeated, or leaves the zone with what it should show.
LEMMA HandleCovers ==
    ASSUME Settling, Typed', NEW z \in Zones, NEW s, NEW b \in BOOLEAN, NEW q \in Queues,
           Takes("operator.zone", z), Living(z), Handle(z, NewRequest(z, s, b), q),
           \A v \in Workers : Rest("operator.zone", z)[v] \subseteq q[v],
           \A y \in Zones \ {z} : EnvSame(y), missed' = missed,
           objs' = objs /\ objs[z].status = s /\ ~b => Shown(z)'
    PROVE  Settling'
<1> DEFINE w == "operator.zone"
           r == NewRequest(z, s, b)
<1>1. /\ Typed /\ queue \in Queues /\ z \in Objects /\ z \in KeysOf(w) /\ w \in Workers
      /\ req[w] = Idle
  BY DEF Settling, Typed, Takes, KeysOf, ZoneWorkers, Objects
<1>2. r # Idle /\ r.key = z /\ r.again = b /\ (r.dirty <=> s # objs[z].status)
  BY <1>1, NewRequestFields
<1>3. IF Claims(z) THEN Claim(z, r, q) ELSE Proceed(z, r, q)
  BY DEF Handle
<1>4. CASE Claims(z)
  BY <1>3, <1>4, ClaimCovers
<1> HIDE DEF r
<1>5. /\ \A v \in Workers \ {w} : Rest(w, z)[v] = queue[v]
      /\ Rest(w, z)[w] = queue[w] \ {z}
  BY <1>1 DEF Rest, Queues
<1>6. CASE ~Claims(z) /\ (r.dirty \/ r.again)
  <2>1. objs' = objs /\ queue' = q /\ req' = [req EXCEPT ![w] = r]
    BY <1>3, <1>6 DEF Proceed
  <2>2. req'[w] = r /\ \A v \in Workers \ {w} : req'[v] = req[v]
    BY <1>1, <2>1 DEF Typed, Requests
  <2>3. EnvKept
    BY <1>2, <2>2 DEF EnvKept, Due
  <2>4. QED
    BY <1>1, <1>2, <1>5, <1>6, <2>1, <2>2, <2>3, TakingCovers
<1>7. CASE ~Claims(z) /\ ~r.dirty /\ ~r.again
  <2>1. objs' = objs /\ queue' = OperatorTrigger(q, z) /\ req' = req
    BY <1>3, <1>7 DEF Proceed
  <2>2. \A v \in Workers : Rest(w, z)[v] \subseteq queue'[v]
    <3>1. \A v \in Workers : q[v] \subseteq queue'[v]
      BY <2>1, Growing
    <3>2. QED
      BY <3>1
  <2>3. /\ Children(z) \subseteq queue'["operator.zone"]
        /\ "operator.entry" \in Workers => EntriesOf(z) \subseteq queue'["operator.entry"]
    BY <1>1, <2>1, Growing
  <2>4. Shown(z)'
    BY <1>2, <1>7, <2>1
  <2>5. Done(w, z)
    BY <2>3, <2>4 DEF Done
  <2>6. EnvKept
    BY <2>4 DEF EnvKept
  <2>7. QED
    BY <1>1, <1>5, <2>1, <2>2, <2>5, <2>6, TakingCovers
<1>8. QED
  BY <1>4, <1>6, <1>7

\* Taking a zone and creating a secret wake, but make nobody forget.
LEMMA AccessedGrows ==
    ASSUME Typed, NEW z \in Zones
    PROVE  \A v \in Workers : Rest("operator.zone", z)[v] \subseteq Accessed(z)[v]
BY DEF Accessed, SecretTrigger, Woken

\* What a request does about the deployment of z leaves those of others alone.
LEMMA DeployedSame ==
    ASSUME Typed, NEW z \in Zones, NEW b \in BOOLEAN,
           depl' = Deployed(z, b) \/ depl' = depl,
           secret' = secret \/ secret' = Requested(z),
           \A y \in Zones \ {z} : waits'[y] = waits[y],
           reachable' = reachable
    PROVE  \A y \in Zones \ {z} : EnvSame(y)
<1>1. depl \in [Zones -> Stages]
  BY DEF Typed, EnvOK
<1>2. \A y \in Zones \ {z} : depl'[y] = depl[y]
  BY <1>1 DEF Deployed
<1>3. secret' = "token" => secret = "token"
  BY DEF Requested
<1>4. QED
  BY <1>2, <1>3 DEF EnvSame

\* A request of the operator about a living zone.
LEMMA ReconcileCovers ==
    ASSUME Settling, Typed', NEW z \in Zones, Reconcile(z)
    PROVE  Settling'
<1>1. /\ Typed /\ Living(z) /\ objs[z] \in Zone /\ Takes("operator.zone", z)
      /\ depl \in [Zones -> Stages] /\ waits \in [Zones -> Reasons]
  BY Kinds DEF Settling, Typed, EnvOK, Reconcile, Takes, Living
<1>2. /\ Handle(z, NewRequest(z, ZoneReport(z), FALSE), Accessed(z))
      /\ secret' = Requested(z)
      /\ depl' = IF Deploys(z) THEN Deployed(z, secret = "token") ELSE depl
      /\ waits' = [waits EXCEPT ![z] = IF Deploys(z) /\ ~(secret = "token") THEN "token"
                                                                            ELSE "none"]
      /\ reachable' = reachable /\ missed' = missed
  BY DEF Reconcile
<1>3. \A y \in Zones \ {z} : EnvSame(y)
  <2>1. \A y \in Zones \ {z} : waits'[y] = waits[y]
    BY <1>1, <1>2
  <2>2. QED
    BY <1>1, <1>2, <2>1, DeployedSame
<1>4. ASSUME objs' = objs, objs[z].status = ZoneReport(z) PROVE Shown(z)'
  <2>1. /\ RootOf(z)' = RootOf(z) /\ objs'[z] = objs[z] /\ (Living(z)' <=> Living(z))
    BY <1>4 DEF RootOf, Living
  <2>2. Ours(z)' <=> Ours(z)
    BY <2>1 DEF Ours
  <2>3. Validate(objs, objs[z].spec)' <=> Validate(objs, objs[z].spec)
    BY <1>4
  <2>4. Deploys(z)' <=> Deploys(z)
    BY <2>1, <2>2, <2>3 DEF Deploys
  <2>5. CASE objs[z].spec.parent = NoZone
    <3>1. (isDeploymentReady(z)' <=> isDeploymentReady(z))
          /\ (isLoadBalancerReady(z)' <=> isLoadBalancerReady(z))
      BY <1>1, <1>2 DEF isDeploymentReady, isLoadBalancerReady, Deployed
    <3>2. Deploys(z) => depl'[z] # "none"
      BY <1>1, <1>2 DEF Deployed
    <3>3. Deploys(z) => /\ waits'[z] = "none" => secret = "token"
                        /\ waits'[z] = "token" => secret' # "token"
      BY <1>1, <1>2 DEF Requested
    <3>4. RootShown(z)'
      BY <1>1, <1>4, <2>1, <2>2, <2>3, <2>4, <2>5, <3>1, <3>2, <3>3, RootReported
         DEF RootShown, Condition
    <3>5. QED
      BY <2>1, <2>5, <3>4 DEF Shown
  <2>6. CASE objs[z].spec.parent # NoZone
    <3>1. NestedShown(z)
      BY <1>1, <1>4, <2>6, NestedReported
    <3>2. NestedShown(z)'
      BY <2>1, <2>2, <2>3, <3>1 DEF NestedShown
    <3>3. QED
      BY <2>1, <2>6, <3>2 DEF Shown
  <2>7. QED
    BY <2>5, <2>6
<1>5. QED
  BY <1>1, <1>2, <1>3, <1>4, AccessedType, AccessedGrows, HandleCovers

\* One that does not get the secret leaves the zone valid, and without a
\* promise.
LEMMA AccessFailsCovers ==
    ASSUME Settling, Typed', NEW z \in Zones, AccessFails(z)
    PROVE  Settling'
<1> DEFINE v == [objs[z].status EXCEPT !.valid = "true"]
<1>1. /\ Typed /\ Living(z) /\ objs[z] \in Zone /\ Takes("operator.zone", z) /\ Deploys(z)
      /\ depl \in [Zones -> Stages] /\ waits \in [Zones -> Reasons]
  BY Kinds DEF Settling, Typed, EnvOK, AccessFails, Takes, Living
<1>2. /\ Handle(z, NewRequest(z, v, FALSE), Rest("operator.zone", z))
      /\ secret' = secret /\ depl' = Deployed(z, FALSE)
      /\ waits' = [waits EXCEPT ![z] = "error"]
      /\ reachable' = reachable /\ missed' = missed
  BY DEF AccessFails
<1>3. v.valid = "true"
  BY <1>1 DEF Zone, ZoneStatus
<1> HIDE DEF v
<1>4. \A y \in Zones \ {z} : EnvSame(y)
  <2>1. \A y \in Zones \ {z} : waits'[y] = waits[y]
    BY <1>1, <1>2
  <2>2. QED
    BY <1>1, <1>2, <2>1, DeployedSame
<1>5. ASSUME objs' = objs, objs[z].status = v PROVE Shown(z)'
  <2>1. objs'[z].status.valid = "true" /\ objs'[z].spec = objs[z].spec
    BY <1>3, <1>5
  <2>2. depl'[z] # "none" /\ waits'[z] = "error"
    BY <1>1, <1>2 DEF Deployed
  <2>3. AlnumFields(objs'[z].spec) /\ Validate(objs', objs'[z].spec)
        /\ objs'[z].spec.parent = NoZone
    BY <1>1, <1>5, <2>1 DEF Deploys, Ours
  <2>4. RootShown(z)'
    BY <2>1, <2>2, <2>3 DEF RootShown
  <2>5. QED
    BY <2>3, <2>4 DEF Shown
<1>6. QED
  BY <1>1, <1>2, <1>4, <1>5, RestType, HandleCovers

\* One whose manifest cannot be applied is repeated, ...
LEMMA ReconcileFailsCovers ==
    ASSUME Settling, Typed', NEW z \in Zones, ReconcileFails(z)
    PROVE  Settling'
<1>1. /\ Typed /\ Living(z) /\ Takes("operator.zone", z)
      /\ \E s : Handle(z, NewRequest(z, s, TRUE), Accessed(z))
      /\ secret' = Requested(z)
      /\ depl' \in {Deployed(z, FALSE), Deployed(z, secret = "token")}
      /\ UNCHANGED <<reachable, waits, missed>>
  BY DEF Settling, ReconcileFails
<1>2. \A y \in Zones \ {z} : EnvSame(y)
  BY <1>1, DeployedSame
<1>3. QED
  BY <1>1, <1>2, AccessedType, AccessedGrows, HandleCovers

\* A request that is to be repeated.
LEMMA AgainCovers ==
    ASSUME Settling, Typed', NEW w \in Workers, NEW x \in KeysOf(w), Takes(w, x), NEW s,
           objs' = objs, queue' = Rest(w, x),
           req' = [req EXCEPT ![w] = NewRequest(x, s, TRUE)],
           UNCHANGED <<env, missed>>
    PROVE  Settling'
<1>1. Typed /\ queue \in Queues /\ x \in Objects
  BY DEF Settling, Typed, KeysOf, Objects
<1>2. req'[w] = NewRequest(x, s, TRUE) /\ \A v \in Workers \ {w} : req'[v] = req[v]
  BY <1>1 DEF Typed, Requests
<1>3. req'[w] # Idle /\ req'[w].key = x /\ req'[w].again = TRUE
  <2>1. NewRequest(x, s, TRUE).key = x /\ NewRequest(x, s, TRUE).again = TRUE
    BY DEF NewRequest
  <2>2. x # NoZone
    BY <1>1, Kinds
  <2>3. Idle.key = NoZone
    BY DEF Idle
  <2>4. req'[w].key = x /\ req'[w].again = TRUE
    BY <1>2, <2>1
  <2>5. QED
    BY <2>2, <2>3, <2>4
<1>4. queue'[w] = queue[w] \ {x} /\ \A v \in Workers \ {w} : queue'[v] = queue[v]
  BY <1>1 DEF Rest, Queues
<1>5. EnvKept
  BY DEF env, EnvKept, EnvSame
<1>6. QED
  BY <1>2, <1>3, <1>4, <1>5, TakingCovers

\* ... as is one that does not find out the root, ...
LEMMA LookupFailsCovers ==
    ASSUME Settling, Typed', NEW z \in Zones, LookupFails(z)
    PROVE  Settling'
<1>1. z \in KeysOf("operator.zone") /\ "operator.zone" \in Workers
  BY DEF LookupFails, Takes, KeysOf, ZoneWorkers
<1>2. QED
  BY <1>1, AgainCovers DEF LookupFails, env

\* ... and one of the server.
LEMMA ServerLookupFailsCovers ==
    ASSUME Settling, Typed', NEW w \in Workers, NEW x \in Objects, ServerLookupFails(w, x)
    PROVE  Settling'
<1>1. x \in KeysOf(w)
  BY DEF ServerLookupFails, Takes, Settling, Typed, Queues
<1>2. QED
  BY <1>1, AgainCovers DEF ServerLookupFails, env

\* Without its deployment a zone does not matter to the others.
LEMMA UndeploySame ==
    ASSUME Typed, NEW z \in Zones, Undeploy(z)
    PROVE  \A y \in Zones \ {z} : EnvSame(y)
<1>1. depl \in [Zones -> Stages] /\ waits \in [Zones -> Reasons]
  BY DEF Typed, EnvOK
<1>2. \A y \in Zones \ {z} : depl'[y] = depl[y] /\ waits'[y] = waits[y]
  BY <1>1 DEF Undeploy
<1>3. secret' = "token" => secret = "token"
  BY DEF Undeploy
<1>4. QED
  BY <1>2, <1>3 DEF Undeploy, EnvSame

\* The object goes, and the zone is looked at again.
LEMMA ReconcileDeletingCovers ==
    ASSUME Settling, Typed', NEW z \in Zones, ReconcileDeleting(z)
    PROVE  Settling'
<1> DEFINE w == "operator.zone"
           q == Notify(Rest(w, z), z)
<1>1. /\ Typed /\ queue \in Queues /\ z \in Objects /\ z \in KeysOf(w) /\ w \in Workers
      /\ req[w] = Idle /\ Rest(w, z) \in Queues /\ depl \in [Zones -> Stages]
  BY Kinds, RestType
     DEF Settling, Typed, EnvOK, ReconcileDeleting, Takes, KeysOf, ZoneWorkers
<1>2. /\ objs' = [objs EXCEPT ![z] = Absent]
      /\ queue' = OperatorTrigger(q, z)
      /\ req' = Outdate(z)
      /\ missed' = missed
  BY DEF ReconcileDeleting
<1>3. q \in Queues
  BY <1>1, NotifyType
<1>4. /\ \A v \in Workers \ {w} : Rest(w, z)[v] = queue[v]
      /\ Rest(w, z)[w] = queue[w] \ {z}
  BY <1>1 DEF Rest, Queues
<1>5. \A v \in Workers : /\ Rest(w, z)[v] \subseteq queue'[v]
                         /\ z \in KeysOf(v) => z \in queue'[v]
  <2>1. \A v \in Workers : Rest(w, z)[v] \subseteq q[v] /\ (z \in KeysOf(v) => z \in q[v])
    BY <1>1, Growing
  <2>2. \A v \in Workers : q[v] \subseteq queue'[v]
    BY <1>2, <1>3, Growing
  <2>3. QED
    BY <2>1, <2>2
<1> HIDE DEF q
<1>6. \A y \in Objects : objs'[y] = IF y = z THEN Absent ELSE objs[y]
  BY <1>1, <1>2 DEF Typed, ObjectsOf
<1>7. \A v \in Workers \ {w} : Kept(v)
  BY <1>1, <1>2, <1>4, <1>5, Outdating DEF Kept
<1>8. Written
  <2>1. \A v \in Workers : KeysOf(v) \subseteq Objects
    BY DEF KeysOf, Objects
  <2>2. QED
    BY <1>5, <1>6, <2>1 DEF Written, Due
<1>9. Claimed'
  BY <1>1, <1>2, <1>6 DEF Settling, Claimed, Objects
<1>10. Due(w, z)'
  BY <1>1, <1>5 DEF Due
<1>11. EnvKept
  BY <1>1, <1>10, UndeploySame DEF ReconcileDeleting, EnvKept
<1>12. \A y : y # z /\ Due(w, y) => Due(w, y)'
  BY <1>1, <1>4, <1>5 DEF Due
<1>13. Left(w)'
  BY <1>1, <1>2, Outdating DEF Left
<1>14. QED
  BY <1>1, <1>2, <1>7, <1>8, <1>9, <1>10, <1>11, <1>12, <1>13, WorkerCovers

\* Nothing is to be shown of a zone that is gone; its entries are told.
LEMMA ReconcileDeletedCovers ==
    ASSUME Settling, Typed', NEW z \in Zones, ReconcileDeleted(z)
    PROVE  Settling'
<1> DEFINE w == "operator.zone"
<1>1. /\ Typed /\ queue \in Queues /\ z \in Objects /\ z \in KeysOf(w) /\ w \in Workers
      /\ Takes(w, z) /\ req[w] = Idle /\ depl \in [Zones -> Stages]
  BY Kinds DEF Settling, Typed, EnvOK, ReconcileDeleted, Takes, KeysOf, ZoneWorkers
<1>2. /\ objs' = objs /\ objs[z] = Absent /\ req' = req
      /\ missed' = missed
      /\ queue' = [v \in Workers |-> IF v = "operator.entry" THEN queue[v] \cup EntriesOf(z)
                                                             ELSE Rest(w, z)[v]]
  BY DEF ReconcileDeleted
<1>3. /\ \A v \in Workers \ {w} : Rest(w, z)[v] = queue[v]
      /\ Rest(w, z)[w] = queue[w] \ {z}
  BY <1>1 DEF Rest, Queues
<1>4. /\ \A v \in Workers \ {w} : queue[v] \subseteq queue'[v]
      /\ queue'[w] = queue[w] \ {z}
  BY <1>1, <1>2, <1>3
<1>5. EnvKept
  BY <1>1, <1>2, UndeploySame DEF ReconcileDeleted, EnvKept
<1>6. Done(w, z)
  BY <1>2 DEF Done, Shown, Living
<1>7. QED
  BY <1>1, <1>2, <1>4, <1>5, <1>6, TakingCovers

\* A request that reads, and changes nothing but the status.
LEMMA BeginCovers ==
    ASSUME Settling, Typed', NEW w \in Workers, NEW x \in KeysOf(w), Takes(w, x), NEW s,
           Begin(w, x, s), objs' = objs, UNCHANGED env,
           s = objs[x].status => Done(w, x),
           \A e \in Entries : e \in missed => e \in missed' \/ (w = "operator.entry" /\ e = x)
    PROVE  Settling'
<1> DEFINE r == NewRequest(x, s, FALSE)
<1>1. /\ Typed /\ queue \in Queues /\ x \in Objects /\ req[w] = Idle
  BY DEF Settling, Typed, KeysOf, Objects, Takes
<1>2. queue'[w] = queue[w] \ {x} /\ \A v \in Workers \ {w} : queue'[v] = queue[v]
  BY <1>1 DEF Begin, Rest, Queues
<1>3. EnvKept
  BY DEF env, EnvKept, EnvSame
<1>4. CASE s = objs[x].status
  BY <1>1, <1>2, <1>3, <1>4, TakingCovers DEF Begin
<1>5. CASE s # objs[x].status
  <2>1. r # Idle /\ r.key = x /\ r.dirty
    BY <1>1, <1>5, NewRequestFields
  <2> HIDE DEF r
  <2>2. req' = [req EXCEPT ![w] = r]
    BY <1>5 DEF Begin, r
  <2>3. req'[w] = r /\ \A v \in Workers \ {w} : req'[v] = req[v]
    BY <1>1, <2>2 DEF Typed, Requests
  <2>4. QED
    BY <1>2, <1>3, <2>1, <2>3, TakingCovers
<1>6. QED
  BY <1>4, <1>5

\* Requests about entries.
LEMMA EntryCovers ==
    ASSUME Settling, Typed', NEW e \in Entries,
           ReconcileEntry(e) \/ EntryLookupFails(e) \/ ServeEntry(e)
    PROVE  Settling'
<1>1. \A w \in EntryWorkers : w \notin ZoneWorkers /\ e \in KeysOf(w)
  BY DEF KeysOf, ZoneWorkers, EntryWorkers
<1>2. CASE ReconcileEntry(e)
  <2>1. "operator.entry" \in Workers /\ e \in KeysOf("operator.entry")
    BY <1>1, <1>2 DEF ReconcileEntry, Takes, EntryWorkers
  <2>2. objs' = objs /\ EntryReport(e)' = EntryReport(e)
    BY <1>2 DEF ReconcileEntry, EntryReport, responsibleForEntry
  <2>3. EntryReport(e) = objs[e].status => Done("operator.entry", e)
    BY <2>2 DEF Done, EntryShown
  <2>4. QED
    BY <1>2, <2>1, <2>2, <2>3, BeginCovers DEF ReconcileEntry, env
<1>3. CASE EntryLookupFails(e)
  <2>1. "operator.entry" \in Workers /\ e \in KeysOf("operator.entry")
    BY <1>1, <1>3 DEF EntryLookupFails, Takes, EntryWorkers
  <2>2. Done("operator.entry", e)
    BY <1>3 DEF EntryLookupFails, Done, EntryShown
  <2>3. QED
    BY <1>3, <2>1, <2>2, BeginCovers DEF EntryLookupFails, env
<1>4. CASE ServeEntry(e)
  <2>1. "server.entry" \in Workers /\ e \in KeysOf("server.entry")
    BY <1>1, <1>4 DEF ServeEntry, Takes, EntryWorkers
  <2>2. Done("server.entry", e)
    BY DEF Done
  <2>3. QED
    BY <1>4, <2>1, <2>2, BeginCovers DEF ServeEntry, env
<1>5. QED
  BY <1>2, <1>3, <1>4

\* Nothing is to be shown of an entry that is gone.
LEMMA EntryDeletedCovers ==
    ASSUME Settling, Typed', NEW w \in Workers, NEW e \in Entries, EntryDeleted(w, e)
    PROVE  Settling'
<1>1. /\ Typed /\ queue \in Queues /\ e \in KeysOf(w) /\ w \notin ZoneWorkers
      /\ Takes(w, e) /\ req[w] = Idle
  BY Kinds DEF Settling, Typed, EntryDeleted, Takes, KeysOf, Queues
<1>2. queue'[w] = queue[w] \ {e} /\ \A v \in Workers \ {w} : queue'[v] = queue[v]
  BY <1>1 DEF EntryDeleted, Rest, Queues
<1>3. EnvKept
  BY DEF EntryDeleted, env, EnvKept, EnvSame
<1>4. Done(w, e)
  BY <1>1 DEF EntryDeleted, Done, EntryShown, ZoneWorkers
<1>5. QED
  BY <1>1, <1>2, <1>3, <1>4, TakingCovers DEF EntryDeleted

\* A request of the server about a zone.
LEMMA ServeCovers ==
    ASSUME Settling, Typed', NEW z \in Zones, Serve(z)
    PROVE  Settling'
<1> DEFINE w == "server.zone"
           ok == RootOf(z) # Absent /\ ValidateZone(objs[z].spec)
           s == IF RootOf(z) # Absent /\ ~Check(RootOf(z).spec, ServerClass, nil)
                THEN objs[z].status ELSE Served(objs[z].status, ok)
<1>1. /\ Typed /\ z \in KeysOf(w) /\ w \in Workers /\ Takes(w, z) /\ Living(z)
      /\ Begin(w, z, s) /\ objs' = objs /\ UNCHANGED <<env, missed>>
  BY DEF Settling, Serve, Takes, KeysOf, ZoneWorkers, env
<1>2. ASSUME s = objs[z].status PROVE RootServed(z)
  <2> SUFFICES ASSUME objs[z].spec.parent = NoZone, Check(objs[z].spec, ServerClass, nil)
               PROVE  objs[z].status = Served(objs[z].status, ValidateZone(objs[z].spec))
    BY DEF RootServed
  <2>1. RootOf(z) = objs[z] /\ objs[z] # Absent
    BY <1>1, RootOfRoot DEF Living
  <2>2. objs[z].status = Served(objs[z].status, ok)
    BY <1>2, <2>1
  <2>3. ok <=> ValidateZone(objs[z].spec)
    BY <2>1
  <2>4. Served(objs[z].status, ok) = Served(objs[z].status, ValidateZone(objs[z].spec))
    BY <2>3 DEF Served, Condition
  <2>5. QED
    BY <2>2, <2>4
<1> HIDE DEF s
<1>3. RootServed(z) => RootServed(z)'
  BY <1>1 DEF RootServed, Living
<1>4. s = objs[z].status => Done(w, z)
  BY <1>2, <1>3 DEF Done
<1>5. QED
  BY <1>1, <1>4, BeginCovers

\* The server has nothing to show on a deleted zone.
LEMMA TriggerStatusChangedCovers ==
    ASSUME Settling, Typed', NEW z \in Zones, TriggerStatusChanged(z)
    PROVE  Settling'
<1> DEFINE w == "server.zone"
<1>1. /\ Typed /\ queue \in Queues /\ z \in KeysOf(w) /\ w \in Workers
      /\ Takes(w, z) /\ ~Living(z) /\ Rest(w, z) \in Queues /\ req[w] = Idle
      /\ objs' = objs /\ req' = req /\ UNCHANGED <<env, missed>>
      /\ queue' = ServerTrigger(Rest(w, z), z)
  BY RestType DEF Settling, Typed, TriggerStatusChanged, Takes, KeysOf, ZoneWorkers, env
<1>2. \A v \in Workers : Rest(w, z)[v] \subseteq queue'[v]
  BY <1>1, Growing
<1>3. /\ \A v \in Workers \ {w} : Rest(w, z)[v] = queue[v]
      /\ Rest(w, z)[w] = queue[w] \ {z}
  BY <1>1 DEF Rest, Queues
<1>4. EnvKept
  BY <1>1 DEF env, EnvKept, EnvSame
<1>5. Done(w, z)
  BY <1>1 DEF Done, RootServed, Living
<1>6. QED
  BY <1>1, <1>2, <1>3, <1>4, <1>5, TakingCovers

-----------------------------------------------------------------------------
(* The end of a request. *)

\* A request that ends leaves its object waiting for another one: as it was
\* written, is to be repeated, or was left to that one.
LEMMA WorkCovers ==
    ASSUME Settling, Typed', NEW w \in Workers, Work(w)
    PROVE  Settling'
<1> PICK r, x : r = req[w] /\ x = r.key
  OBVIOUS
<1>1. /\ Typed /\ queue \in Queues /\ r # Idle
      /\ UNCHANGED <<env, missed>>
  BY DEF Settling, Typed, Work, UpdateStatus, UpdateConflict, WriteFails, Requeue, env
<1>2. x \in KeysOf(w) /\ x \in Objects
  BY <1>1, NotIdle DEF Typed, Requests, RequestOK
<1>3. EnvKept
  BY <1>1 DEF env, EnvKept, EnvSame
<1>4. ASSUME req'[w] = Idle, x \in queue'[w], \A v \in Workers : queue[v] \subseteq queue'[v],
             \A v \in Workers \ {w} : Kept(v), Written, Claimed'
      PROVE  Settling'
  <2>1. Left(w)' /\ Due(w, x)'
    BY <1>4 DEF Left, Due
  <2>2. \A y : y # x /\ Due(w, y) => Due(w, y)'
    BY <1>4 DEF Due
  <2>3. QED
    BY <1>1, <1>2, <1>3, <1>4, <2>1, <2>2, WorkerCovers
<1>5. CASE UpdateConflict(w) \/ WriteFails(w)
  <2>1. /\ objs' = objs /\ req' = [req EXCEPT ![w] = Idle]
        /\ queue' = [queue EXCEPT ![w] = @ \cup {x}]
    BY <1>5 DEF UpdateConflict, WriteFails, Requeue
  <2>2. req'[w] = Idle /\ \A v \in Workers \ {w} : req'[v] = req[v]
    BY <1>1, <2>1 DEF Typed, Requests
  <2>3. x \in queue'[w] /\ \A v \in Workers : queue[v] \subseteq queue'[v]
    BY <1>1, <2>1 DEF Queues
  <2>4. (\A v \in Workers \ {w} : Kept(v)) /\ Written /\ Claimed'
    BY <2>1, <2>2, <2>3 DEF Kept, Written, Settling, Claimed
  <2>5. QED
    BY <1>4, <2>2, <2>3, <2>4
<1>6. CASE UpdateStatus(w)
  <2> DEFINE written == IF r.dirty THEN Notify(queue, x) ELSE queue
             told == IF w = "operator.zone" THEN OperatorTrigger(written, x) ELSE written
  <2>1. /\ objs' = IF r.dirty THEN [objs EXCEPT ![x].status = r.status] ELSE objs
        /\ req' = [IF r.dirty THEN Outdate(x) ELSE req EXCEPT ![w] = Idle]
        /\ queue' = [told EXCEPT ![w] = IF r.again THEN @ \cup {x} ELSE @]
        /\ r.dirty => objs[x] # Absent
    BY <1>6 DEF UpdateStatus, Finish
  <2>2. /\ written \in Queues /\ \A v \in Workers : queue[v] \subseteq written[v]
        /\ r.dirty => \A v \in Workers : x \in KeysOf(v) => x \in written[v]
    BY <1>1, <1>2, NotifyType, Growing
  <2> HIDE DEF written
  <2>3. told \in Queues /\ \A v \in Workers : written[v] \subseteq told[v]
    BY <2>2, TriggerType, Growing
  <2> HIDE DEF told
  <2>4. /\ \A v \in Workers : told[v] \subseteq queue'[v]
        /\ r.again => x \in queue'[w]
    BY <2>1, <2>3 DEF Queues
  <2>5. \A v \in Workers : queue[v] \subseteq queue'[v]
    BY <2>2, <2>3, <2>4
  <2>6. r.dirty => \A v \in Workers : x \in KeysOf(v) => x \in queue'[v]
    BY <2>2, <2>3, <2>4
  <2>7. x \in queue'[w]
    BY <1>1, <1>2, <2>4, <2>5, <2>6 DEF Settling, AllLeft, Left
  <2>8. req'[w] = Idle /\ \A v \in Workers \ {w} : req'[v] = IF r.dirty THEN Outdate(x)[v]
                                                                    ELSE req[v]
    <3>1. Outdate(x) = [v \in Workers |-> Outdate(x)[v]] /\ req = [v \in Workers |-> req[v]]
      BY <1>1 DEF Outdate, Typed, Requests
    <3>2. QED
      BY <2>1, <3>1
  <2>9. \A v \in Workers \ {w} : Kept(v)
    BY <1>1, <1>2, <2>5, <2>8, Outdating DEF Kept
  <2>10. Written /\ Claimed'
    <3>1. CASE ~r.dirty
      BY <2>1, <3>1 DEF Written, Settling, Claimed
    <3>2. CASE r.dirty
      <4> DEFINE o == [objs[x] EXCEPT !.status = r.status]
      <4>1. \A y \in Objects : objs'[y] = IF y = x THEN o ELSE objs[y]
        BY <1>1, <2>1, <3>2 DEF Typed, ObjectsOf
      <4>2. x \in Zones => o.fin = objs[x].fin /\ o.spec = objs[x].spec
        BY <1>1, <2>1, <3>2, Kinds DEF Zone
      <4> HIDE DEF o
      <4>3. \A v \in Workers : KeysOf(v) \subseteq Objects
        BY DEF KeysOf, Objects
      <4>4. Written
        BY <2>6, <3>2, <4>1, <4>3 DEF Written, Due
      <4>5. Claimed'
        BY <2>1, <3>2, <4>1, <4>2 DEF Settling, Claimed, Objects
      <4>6. QED
        BY <4>4, <4>5
    <3>3. QED
      BY <3>1, <3>2
  <2>11. QED
    BY <1>4, <2>5, <2>7, <2>8, <2>9, <2>10
<1>7. QED
  BY <1>5, <1>6 DEF Work

-----------------------------------------------------------------------------
\* Every step keeps the inductive invariant.
LEMMA NextCovers ==
    ASSUME Settling, [Next]_vars
    PROVE  Settling'
<1>1. Typed'
  BY NextTyped DEF Settling
<1>2. CASE UNCHANGED vars
  <2>1. \A v \in Workers : Kept(v)
    BY <1>2 DEF vars, Kept
  <2>2. Written /\ EnvKept /\ Claimed'
    BY <1>2 DEF vars, Written, EnvKept, EnvSame, Settling, Claimed
  <2>3. missed' = missed
    BY <1>2 DEF vars
  <2>4. QED
    BY <1>1, <2>1, <2>2, <2>3, OthersCover
<1>3. ASSUME NEW w \in Workers, NEW x \in Objects, Start(w, x) PROVE Settling'
  BY <1>1, <1>3, ReconcileCovers, ReconcileDeletingCovers, ReconcileDeletedCovers, ServeCovers,
     TriggerStatusChangedCovers, EntryCovers, EntryDeletedCovers DEF Start
<1>4. ASSUME NEW x \in Objects, StartFails(x) PROVE Settling'
  BY <1>1, <1>4, AccessFailsCovers, ReconcileFailsCovers, LookupFailsCovers, EntryCovers,
     ServerLookupFailsCovers DEF StartFails
<1>5. QED
  BY <1>1, <1>2, <1>3, <1>4, UserCovers, WorkCovers, ClusterCovers DEF Next

\* At the start all objects are waiting.
LEMMA InitCovers ==
    ASSUME Init
    PROVE  Settling
<1>1. Typed
  BY InitTyped
<1>2. /\ queue = [w \in Workers |->
                    {x \in IF w \in ZoneWorkers THEN Zones ELSE Entries : objs[x] # Absent}]
      /\ req = [w \in Workers |-> Idle]
      /\ depl = [z \in Zones |-> "none"]
  BY DEF Init
<1>3. \A w \in Workers : \A x \in KeysOf(w) : objs[x] # Absent => Due(w, x)
  BY <1>2 DEF KeysOf, Due
<1>4. AllLeft
  BY <1>2 DEF AllLeft, Left
<1>6. Claimed
  <2>1. PICK X, spec : objs = [x \in Objects |-> IF x \in X THEN NewObject(x, spec[x])
                                                            ELSE Absent]
    BY DEF Init
  <2>2. QED
    BY <2>1 DEF Claimed, NewObject, Objects
<1>7. "operator.zone" \in Workers => ZonesCovered
  <2> SUFFICES ASSUME "operator.zone" \in Workers, NEW z \in Zones
               PROVE  Shown(z) \/ \E w \in Passed(objs, z) : Open(w)
    BY DEF ZonesCovered
  <2>1. z \in Passed(objs, z)
    BY <1>1, TypedLinked, PassedLeast
  <2>2. objs[z] # Absent => Open(z)
    BY <1>3 DEF Open, KeysOf, ZoneWorkers
  <2>3. QED
    BY <2>1, <2>2 DEF Shown, Living
<1>8. {"operator.zone", "operator.entry"} \subseteq Workers => EntriesCovered
  BY <1>3 DEF EntriesCovered, EntryShown, EntryOpen, KeysOf, ZoneWorkers
<1>9. "server.zone" \in Workers => RootsServed
  BY <1>3 DEF RootsServed, RootServed, Living, KeysOf, ZoneWorkers
<1>10. QED
  BY <1>1, <1>4, <1>6, <1>7, <1>8, <1>9 DEF Settling

\* When nothing is due, every zone and entry shows what it should.
LEMMA QuietShown ==
    ASSUME Settling, Quiet
    PROVE  /\ "operator.zone" \in Workers => \A z \in Zones : Shown(z)
           /\ {"operator.zone", "operator.entry"} \subseteq Workers
              => \A e \in Entries : EntryShown(e)
           /\ "server.zone" \in Workers => \A z \in Zones : RootServed(z)
<1>1. \A w \in Workers : \A x : ~Due(w, x)
  BY DEF Quiet, Due
<1>2. QED
  BY <1>1 DEF Settling, ZonesCovered, EntriesCovered, RootsServed, Open, EntryOpen

\* A zone the operator has found valid is not one the server is master of.
LEMMA ServedSettled ==
    ASSUME Typed, NEW z \in Zones, Living(z), objs[z].status.valid = "true", Slave,
           Check(objs[z].spec, ServerClass, nil), objs[z].spec.parent = NoZone,
           ValidateZone(objs[z].spec), RootServed(z)
    PROVE  objs[z].status.server = "true"
<1> DEFINE s == objs[z].status
           t == [s EXCEPT !.server = "true"]
<1>1. s \in ZoneStatus
  BY Kinds DEF Living, Zone
<1>2. s = Served(s, ValidateZone(objs[z].spec))
  BY DEF RootServed
<1>3. "valid" \in DOMAIN s /\ s["valid"] = "true"
  BY <1>1 DEF ZoneStatus
<1>4. ~IsMaster(s)
  BY <1>3 DEF IsMaster
<1>5. s = t
  BY <1>2, <1>4 DEF Served, Condition
<1>6. t.server = "true"
  BY <1>1 DEF ZoneStatus
<1>7. QED
  BY <1>5, <1>6

\* What a root zone shows in the end.
LEMMA RootsSettle ==
    ASSUME Settling, Quiet, "operator.zone" \in Workers, NEW z \in Zones, Living(z), Ours(z),
           Validate(objs, objs[z].spec), objs[z].spec.parent = NoZone
    PROVE  objs[z].status.valid = "true" /\ RootSettled(z)
<1>1. RootShown(z)
  BY QuietShown DEF Shown
<1>2. Deploys(z)
  BY DEF Deploys
<1>3. /\ objs[z].status.valid = "true"
      /\ waits[z] = "none" => /\ objs[z].status = summary(objs[z].status)
                              /\ objs[z].status.runtime = Condition(isDeploymentReady(z))
                              /\ objs[z].status.nameserver = "true" => isLoadBalancerReady(z)
      /\ waits[z] = "token" /\ SameCluster => secret # "token"
  BY <1>1, <1>2 DEF RootShown
<1>4. ASSUME Slave, "server.zone" \in Workers, Check(objs[z].spec, ServerClass, nil)
      PROVE  objs[z].status.server = "true"
  BY <1>3, <1>4, QuietShown, ServedSettled DEF Validate, Settling
<1>5. QED
  BY <1>3, <1>4 DEF RootSettled

\* The operator knows whether a root zone it is responsible for is valid.
LEMMA NestedSettle ==
    ASSUME Settling, Quiet, "operator.zone" \in Workers, NEW z \in Zones, Living(z), Ours(z),
           Validate(objs, objs[z].spec), objs[z].spec.parent # NoZone
    PROVE  objs[z].status.valid = "true" /\ NestedSettled(z)
<1> DEFINE s == objs[z].status
           info == GetRootInfo(objs, z)
           y == info.root
<1>1. Typed /\ Linked(objs) /\ objs[z] # Absent
  BY TypedLinked DEF Settling, Living
<1>2. /\ s = summary(s) /\ s.runtime = RootOf(z).status.runtime
      /\ s.nameserver = RootOf(z).status.nameserver
      /\ s.valid = IF RootOf(z).status.valid = "unknown" THEN "unknown" ELSE "true"
  BY QuietShown DEF Shown, NestedShown
<1>3. info.found /\ RootOf(z) = objs[y]
  BY DEF Ours, RootOf
<1>4. y \in Zones /\ objs[y] # Absent /\ objs[y].spec.parent = NoZone /\ y # z
  BY <1>1, <1>3, RootType
<1>5. Living(y)
  BY <1>1, <1>3, <1>4, RootType DEF Living, Alive
<1> HIDE DEF y, info
<1>6. Check(objs[y].spec, OwnClass, OwnRuntime)
  BY <1>1, <1>3 DEF Ours, Settling, Claimed
<1>7. RootShown(y)
  BY <1>4, <1>5, QuietShown DEF Shown
<1>8. objs[y].status.valid # "unknown"
  <2>1. CASE ~AlnumFields(objs[y].spec)
    BY <1>7, <2>1 DEF RootShown
  <2>2. CASE AlnumFields(objs[y].spec)
    <3>1. RootOf(y) = objs[y]
      BY <1>1, <1>4, RootOfRoot
    <3>2. Ours(y)
      BY <1>4, <1>6, <2>2, <3>1 DEF Ours
    <3>3. QED
      BY <1>4, <1>7, <3>2 DEF RootShown, Deploys
  <2>3. QED
    BY <2>1, <2>2
<1>9. QED
  BY <1>2, <1>3, <1>8 DEF NestedSettled

\* The inductive invariant is strong enough.
LEMMA ZonesSettleNow == Settling => ZonesSettled
<1> SUFFICES ASSUME Settling, Quiet, "operator.zone" \in Workers, NEW z \in Zones,
                    Living(z), Ours(z), Validate(objs, objs[z].spec)
             PROVE  /\ objs[z].status.valid = "true"
                    /\ IF objs[z].spec.parent = NoZone THEN RootSettled(z) ELSE NestedSettled(z)
  BY DEF ZonesSettled
<1>1. QED
  BY RootsSettle, NestedSettle

\* An entry that nothing is due for shows what it should.
LEMMA EntriesSettleNow == Settling => EntriesSettled
BY QuietShown DEF EntriesSettled, EntryShown

\* The inductive invariant holds.
LEMMA ReportsSettle == Spec => []Settling
<1>1. Init => Settling
  BY InitCovers
<1>2. Settling /\ [Next]_vars => Settling'
  BY NextCovers
<1>3. QED
  BY <1>1, <1>2, PTL DEF Spec

(***************************************************************************)
(* ZonesSettled, for any zones and options, any nesting, and any number of *)
(* edits and failures: in whatever order requests, writes, conflicts,      *)
(* deletions and the cluster come, no zone is forgotten.  When the work of *)
(* the operator is done its valid zones show their deployment, and nested  *)
(* ones what their root zone shows.  What may be left is a root zone that  *)
(* waits for its token: if there is one cluster only while the token is    *)
(* missing, with separate ones until its request is repeated.              *)
(***************************************************************************)
THEOREM ZonesSettle == Spec => []ZonesSettled
BY ReportsSettle, ZonesSettleNow, PTL

(***************************************************************************)
(* EntriesSettled, likewise: an entry shows in the end what a request      *)
(* would make of it, although it is not watched what its report depends    *)
(* on, the zones up to the root: they trigger it, or another zone that     *)
(* does.                                                                   *)
(***************************************************************************)
THEOREM EntriesSettle == Spec => []EntriesSettled
BY ReportsSettle, EntriesSettleNow, PTL
=============================================================================
