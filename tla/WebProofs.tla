------------------------------ MODULE WebProofs ------------------------------
(* Theorems about the pages, forms and bell of the client, for any persons,   *)
(* permissions, values, tabs and limits: Pages, SaleForm, AddressLookup,      *)
(* SaleEdit, Bell and ValueLists.                                             *)
EXTENDS Pages, SaleForm, AddressLookup, SaleEdit, Bell, ValueLists, FiniteSetTheorems, TLAPS

-----------------------------------------------------------------------------
(* SaleForm and AddressLookup. *)

SaleForms ==
    [source : Sources, selected : People \cup {Nobody}, fields : People \cup {NoData},
     addressId : {"new", "catalog"}, catalog : Nat,
     address : People \cup {NoData, "typed"}, files : SUBSET Kinds]

\* The fields and the address on display are those of the customer on display.
FormTrue ==
    /\ form \in SaleForms
    /\ Selected => form.source = "existing" /\ form.fields = form.selected
    /\ Selected => form.address \in {NoData, form.selected}
    /\ ~ Selected => form.address \in {NoData, "typed"} /\ form.addressId = "new"
    /\ form.source = "existing" => mayView
    /\ form.addressId = "catalog" => form.catalog # 0

\* So are those that are being sent.
RequestTrue ==
    request # Nobody =>
        /\ Target \in People
        /\ request.fields = Target /\ request.shown = Target
        /\ request.catalog = 0 => request.address \in {Target, "typed"}

FormInv ==
    /\ record \in [People -> People \cup {Nobody}]
    /\ rows \in [People -> Nat]
    /\ FormTrue /\ RequestTrue /\ NoMixUp

-----------------------------------------------------------------------------
LEMMA FormInitInv == FormInit => FormInv
<1> SUFFICES ASSUME FormInit PROVE FormInv
  OBVIOUS
<1>1. record \in [People -> People \cup {Nobody}] /\ \A p \in People : record[p] \in {p, Nobody}
  BY DEF FormInit
<1>2. rows \in [People -> Nat]
  BY DEF FormInit
<1>3. FormTrue
  BY SaleFormAssumption DEF FormInit, FormTrue, SaleForms, Selected, Sources, Kinds
<1> QED
  BY <1>1, <1>2, <1>3 DEF FormInit, FormInv, RequestTrue, NoMixUp

\* An empty form, and one that the user goes on with.
LEMMA Filled ==
    ASSUME FormInv, NEW f, Fill(f), FormTrue'
    PROVE  FormInv'
BY DEF Fill, FormInv, RequestTrue, Target, NoMixUp

LEMMA Emptied ==
    ASSUME FormInv, NEW source \in Sources, source = "existing" => mayView, Fill(EmptyForm(source))
    PROVE  FormInv'
<1>1. form' = EmptyForm(source) /\ UNCHANGED mayView /\ form \in SaleForms
  BY DEF Fill, FormInv, FormTrue
<1>2. FormTrue'
  BY <1>1, SaleFormAssumption DEF EmptyForm, FormTrue, SaleForms, Selected, Sources, Kinds
<1> QED
  BY <1>2, Filled

LEMMA SelectInv ==
    ASSUME FormInv, NEW p \in People, SelectExistingCustomer(p)
    PROVE  FormInv'
<1> DEFINE f == [form EXCEPT !.selected = p, !.fields = record[p], !.catalog = rows[p],
                             !.addressId = IF rows[p] = 0 THEN "new" ELSE "catalog",
                             !.address = IF rows[p] = 0 THEN NoData ELSE p]
<1>1. /\ Fill(f) /\ form.source = "existing" /\ form \in SaleForms /\ record[p] = p /\ rows[p] \in Nat
      /\ mayView
  BY DEF SelectExistingCustomer, FormInv, FormTrue, NoMixUp
<1>2. form' = f /\ UNCHANGED mayView
  BY <1>1 DEF Fill
<1>3. /\ f \in SaleForms /\ f.source = "existing" /\ f.selected = p /\ f.fields = p
      /\ f.catalog = rows[p]
      /\ f.addressId = IF rows[p] = 0 THEN "new" ELSE "catalog"
      /\ f.address = IF rows[p] = 0 THEN NoData ELSE p
  BY <1>1 DEF SaleForms
<1> HIDE DEF f
<1>4. FormTrue'
  BY <1>1, <1>2, <1>3, SaleFormAssumption DEF FormTrue, Selected
<1> QED
  BY <1>1, <1>4, Filled

\* What is typed, taken or attached.
LEMMA FillInv ==
    ASSUME FormInv, NEW p, NEW kind,
           \/ SelectCatalogAddress \/ StartNewAddress \/ TypeAddress
           \/ p \in People /\ TypePerson(p)
           \/ kind \in Kinds /\ AttachFile(kind)
    PROVE  FormInv'
<1>1. form \in SaleForms /\ FormTrue
  BY DEF FormInv, FormTrue
<1>2. CASE SelectCatalogAddress
  <2> DEFINE f == [form EXCEPT !.addressId = "catalog", !.address = form.selected]
  <2>1. Fill(f) /\ Selected /\ form.catalog # 0 /\ form' = f /\ UNCHANGED mayView
    BY <1>2 DEF SelectCatalogAddress, Fill
  <2>2. FormTrue'
    BY <1>1, <2>1, SaleFormAssumption DEF FormTrue, SaleForms, Selected
  <2> QED
    BY <2>1, <2>2, Filled
<1>3. CASE StartNewAddress
  <2> DEFINE f == [form EXCEPT !.addressId = "new", !.address = NoData]
  <2>1. Fill(f) /\ Selected /\ form' = f /\ UNCHANGED mayView
    BY <1>3 DEF StartNewAddress, Fill
  <2>2. FormTrue'
    BY <1>1, <2>1, SaleFormAssumption DEF FormTrue, SaleForms, Selected
  <2> QED
    BY <2>1, <2>2, Filled
<1>4. CASE p \in People /\ TypePerson(p)
  <2> DEFINE f == [form EXCEPT !.fields = p]
  <2>1. Fill(f) /\ form.source = "new" /\ form' = f /\ UNCHANGED mayView
    BY <1>4 DEF TypePerson, Fill
  <2>2. FormTrue'
    BY <1>1, <1>4, <2>1, SaleFormAssumption DEF FormTrue, SaleForms, Selected
  <2> QED
    BY <2>1, <2>2, Filled
<1>5. CASE TypeAddress
  <2> DEFINE f == [form EXCEPT !.address = IF Selected THEN form.selected ELSE "typed"]
  <2>1. Fill(f) /\ form' = f /\ UNCHANGED mayView
    BY <1>5 DEF TypeAddress, Fill
  <2>2. FormTrue'
    BY <1>1, <2>1, SaleFormAssumption DEF FormTrue, SaleForms, Selected
  <2> QED
    BY <2>1, <2>2, Filled
<1>6. CASE kind \in Kinds /\ AttachFile(kind)
  <2> DEFINE g == IF kind \in form.files THEN form.files \ {kind} ELSE form.files \cup {kind}
  <2>1. /\ Fill([form EXCEPT !.files = IF kind \in @ THEN @ \ {kind} ELSE @ \cup {kind}])
        /\ form' = [form EXCEPT !.files = g] /\ UNCHANGED mayView
    BY <1>1, <1>6 DEF AttachFile, Fill, SaleForms
  <2>2. g \in SUBSET Kinds
    BY <1>1, <1>6 DEF SaleForms
  <2> HIDE DEF g
  <2>3. /\ form' \in SaleForms /\ form'.source = form.source /\ form'.selected = form.selected
        /\ form'.fields = form.fields /\ form'.address = form.address
        /\ form'.addressId = form.addressId /\ form'.catalog = form.catalog
    BY <1>1, <2>1, <2>2 DEF SaleForms
  <2>4. FormTrue'
    BY <1>1, <2>1, <2>3 DEF FormTrue, Selected
  <2> QED
    BY <2>1, <2>4, Filled
<1> QED
  BY <1>2, <1>3, <1>4, <1>5, <1>6

\* What is sent is what is on display, of one person.
LEMMA SubmitInv ==
    ASSUME FormInv, Submit
    PROVE  FormInv'
<1>1. /\ Complete /\ request' = Payload /\ form \in SaleForms
      /\ UNCHANGED <<mayView, record, rows, form, sold>>
  BY DEF Submit, FormInv, FormTrue
<1>2. FormTrue'
  BY <1>1 DEF FormInv, FormTrue, Selected
<1> DEFINE catalogued == form.source = "existing" /\ form.addressId # "new"
<1>3. /\ Payload.id = form.selected
      /\ Payload.document = IF Selected THEN Nobody ELSE form.fields
      /\ Payload.fields = form.fields /\ Payload.shown = form.fields
      /\ Payload.catalog = IF catalogued THEN form.catalog ELSE 0
      /\ Payload.address = IF catalogued THEN NoData ELSE form.address
  BY DEF Payload
<1> HIDE DEF catalogued
<1>4. RequestTrue'
  <2>1. Target' = IF Payload.id # Nobody THEN Payload.id ELSE Payload.document
    BY <1>1 DEF Target
  <2>2. CASE Selected
    <3>1. form.selected \in People /\ form.fields = form.selected /\ Target' = form.selected
      BY <1>1, <1>3, <2>1, <2>2 DEF FormInv, FormTrue, SaleForms, Selected
    <3>2. Payload.catalog = 0 => form.address = form.selected /\ Payload.address = form.address
      BY <1>1, <1>3, <2>2 DEF FormInv, FormTrue, SaleForms, Complete, catalogued
    <3> QED
      BY <1>1, <1>3, <3>1, <3>2 DEF RequestTrue
  <2>3. CASE ~ Selected
    <3>1. /\ form.fields \in People /\ Target' = form.fields
          /\ form.source = "new" /\ form.address = "typed"
      BY <1>1, <1>3, <2>1, <2>3 DEF FormInv, FormTrue, SaleForms, Selected, Complete, Sources
    <3> QED
      BY <1>1, <1>3, <3>1 DEF RequestTrue, catalogued
  <2> QED
    BY <2>2, <2>3
<1> QED
  BY <1>1, <1>2, <1>4 DEF FormInv, NoMixUp

\* The sale and the customer are of the person that was sent.
LEMMA CreateInv ==
    ASSUME FormInv, Create
    PROVE  FormInv'
<1>1. /\ request # Nobody /\ Target \in People /\ request.fields = Target /\ request.shown = Target
      /\ request.catalog = 0 => request.address \in {Target, "typed"}
      /\ UNCHANGED <<mayView, form>>
      /\ record \in [People -> People \cup {Nobody}] /\ rows \in [People -> Nat]
  BY DEF Create, FormInv, RequestTrue
<1>2. FormTrue'
  BY <1>1 DEF FormInv, FormTrue, Selected
<1>3. \E answer : request' = [request EXCEPT !.answer = answer]
  BY DEF Create
<1>4. RequestTrue'
  BY <1>1, <1>3 DEF RequestTrue, Target
<1>5. CASE AddressFound
  <2> DEFINE bought == [nr |-> Cardinality(sold), customer |-> Target,
                        address |-> IF request.catalog # 0 THEN Target ELSE request.address,
                        shown |-> request.shown]
  <2>1. /\ record' = Upserted(Target) /\ sold' = sold \cup {bought}
        /\ rows' = [rows EXCEPT ![Target] = IF @ = 0 THEN 1 ELSE @]
    BY <1>5 DEF Create
  <2>2. /\ record' \in [People -> People \cup {Nobody}]
        /\ \A p \in People : record'[p] \in {p, Nobody}
    BY <1>1, <2>1 DEF Upserted, FormInv, NoMixUp
  <2>3. rows' \in [People -> Nat]
    BY <1>1, <2>1
  <2>4. bought.customer = bought.shown /\ bought.address \in {bought.customer, "typed"}
    BY <1>1
  <2> HIDE DEF bought
  <2> QED
    BY <1>2, <1>4, <2>1, <2>2, <2>3, <2>4 DEF FormInv, NoMixUp
<1>6. CASE ~ AddressFound
  <2>1. UNCHANGED <<record, sold, rows>>
    BY <1>6 DEF Create
  <2> QED
    BY <1>1, <1>2, <1>4, <2>1 DEF FormInv, NoMixUp
<1> QED
  BY <1>5, <1>6

LEMMA FormNextInv == FormInv /\ [FormNext]_formVars => FormInv'
<1> SUFFICES ASSUME FormInv, [FormNext]_formVars PROVE FormInv'
  OBVIOUS
<1>1. ASSUME UNCHANGED <<mayView, record, form, sold>>, rows' \in [People -> Nat],
             request' \in {request, Nobody}
      PROVE  FormInv'
  <2>1. FormTrue'
    BY <1>1 DEF FormInv, FormTrue, Selected
  <2>2. RequestTrue'
    BY <1>1 DEF FormInv, RequestTrue, Target
  <2> QED
    BY <1>1, <2>1, <2>2 DEF FormInv, NoMixUp
<1>2. rows \in [People -> Nat]
  BY DEF FormInv
<1>3. CASE Created \/ Refused \/ AnswerLost \/ Leave
  BY <1>1, <1>2, <1>3 DEF Created, Refused, AnswerLost, Leave
<1>4. ASSUME NEW kind \in Kinds, Uploaded(kind) PROVE FormInv'
  BY <1>1, <1>2, <1>4 DEF Uploaded
<1>5. ASSUME NEW p \in People, EditCustomer(p) PROVE FormInv'
  BY <1>1, <1>2, <1>5 DEF EditCustomer
<1>6. CASE UNCHANGED formVars
  BY <1>1, <1>2, <1>6 DEF formVars
<1>7. ASSUME NEW source \in Sources, SwitchCustomerSource(source) PROVE FormInv'
  BY <1>7, Emptied DEF SwitchCustomerSource
<1>8. CASE SwitchCustomer
  <2>1. mayView /\ "existing" \in Sources
    BY <1>8 DEF SwitchCustomer, FormInv, FormTrue, Sources
  <2> QED
    BY <1>8, <2>1, Emptied DEF SwitchCustomer
<1>9. CASE SelectCatalogAddress \/ StartNewAddress \/ TypeAddress
  BY <1>9, FillInv
<1>10. ASSUME NEW p \in People, TypePerson(p) PROVE FormInv'
  BY <1>10, FillInv
<1>11. ASSUME NEW kind \in Kinds, AttachFile(kind) PROVE FormInv'
  BY <1>11, FillInv
<1> QED
  BY <1>3, <1>4, <1>5, <1>6, <1>7, <1>8, <1>9, <1>10, <1>11, SelectInv, SubmitInv, CreateInv
     DEF FormNext

-----------------------------------------------------------------------------
\* A sale never mixes two persons: whatever is selected, cleared, typed, sent
\* and lost, and whatever others edit, it is of the customer on display, at an
\* address of his, and no customer's record takes the data of another person.
THEOREM NoMixUpHolds == FormSpec => []NoMixUp
BY FormInitInv, FormNextInv, PTL DEF FormSpec, FormInv

\* The form has made a sale that it knows of, or is about to.
Made ==
    \/ stage \in {"uploading", "leaving", "left"}
    \/ stage = "creating" /\ request.answer = "created"

OnceInv ==
    /\ lostAnswers \in Nat /\ lateClicks \in Nat /\ IsFiniteSet(sold)
    /\ request # Nobody => stage = "creating" /\ "answer" \in DOMAIN request
    /\ Cardinality(sold) <= lostAnswers + lateClicks + (IF Made THEN 1 ELSE 0)

LEMMA OnceInitInv == FormInit => OnceInv
BY FS_EmptySet DEF FormInit, OnceInv, Made

LEMMA OnceCreate == ASSUME OnceInv, Create PROVE OnceInv'
<1>1. /\ request # Nobody /\ request.answer = "none" /\ stage = "creating"
      /\ "answer" \in DOMAIN request
      /\ UNCHANGED <<stage, lostAnswers, lateClicks>>
  BY DEF Create, OnceInv
<1>2. ~ Made /\ Cardinality(sold) <= lostAnswers + lateClicks /\ Cardinality(sold) \in Nat
  BY <1>1, FS_CardinalityType DEF OnceInv, Made
<1>3. CASE AddressFound
  <2>1. request' = [request EXCEPT !.answer = "created"] /\ \E bought : sold' = sold \cup {bought}
    BY <1>3 DEF Create
  <2>2. request'.answer = "created" /\ DOMAIN request' = DOMAIN request
    BY <1>1, <2>1
  <2>3. Made'
    BY <1>1, <2>2 DEF Made
  <2>4. PICK bought : sold' = sold \cup {bought}
    BY <2>1
  <2>5. IsFiniteSet(sold)
    BY DEF OnceInv
  <2>6. IsFiniteSet(sold') /\ Cardinality(sold') <= Cardinality(sold) + 1
    <3>1. IsFiniteSet(sold \cup {bought})
          /\ Cardinality(sold \cup {bought}) = IF bought \in sold THEN Cardinality(sold)
                                               ELSE Cardinality(sold) + 1
      BY <2>5, FS_AddElement
    <3> QED
      BY <1>2, <2>4, <3>1
  <2> QED
    BY <1>1, <1>2, <2>2, <2>3, <2>6, FS_CardinalityType DEF OnceInv
<1>4. CASE ~ AddressFound
  <2>1. request' = [request EXCEPT !.answer = "notFound"] /\ sold' = sold
    BY <1>4 DEF Create
  <2>2. request'.answer = "notFound" /\ DOMAIN request' = DOMAIN request
    BY <1>1, <2>1
  <2>3. ~ Made'
    BY <1>1, <2>2 DEF Made
  <2> QED
    BY <1>1, <1>2, <2>1, <2>2, <2>3 DEF OnceInv
<1> QED
  BY <1>3, <1>4

LEMMA OnceNext == OnceInv /\ [FormNext]_formVars => OnceInv'
<1> SUFFICES ASSUME OnceInv, [FormNext]_formVars PROVE OnceInv'
  OBVIOUS
<1> USE DEF OnceInv, Made
<1>0. Cardinality(sold) \in Nat
  BY FS_CardinalityType
<1>1. ASSUME UNCHANGED <<stage, request, sold, lostAnswers, lateClicks>> PROVE OnceInv'
  BY <1>1
<1>2. CASE UNCHANGED formVars
  BY <1>1, <1>2 DEF formVars
<1>3. ASSUME NEW f, Fill(f) PROVE OnceInv'
  BY <1>1, <1>3 DEF Fill
<1>4. ASSUME NEW p \in People, EditCustomer(p) PROVE OnceInv'
  BY <1>1, <1>4 DEF EditCustomer
<1>5. CASE Submit
  <2>1. /\ stage \in {"filling", "leaving"} /\ stage' = "creating" /\ request' = Payload
        /\ sold' = sold /\ lostAnswers' = lostAnswers
        /\ lateClicks' = IF stage = "leaving" THEN lateClicks + 1 ELSE lateClicks
    BY <1>5 DEF Submit, ButtonOn
  <2>2. Payload.answer = "none" /\ "answer" \in DOMAIN Payload
    BY DEF Payload
  <2>3. CASE stage = "leaving"
    BY <1>0, <2>1, <2>2, <2>3
  <2>4. CASE stage = "filling"
    BY <1>0, <2>1, <2>2, <2>4
  <2> QED
    BY <2>1, <2>3, <2>4
<1>6. CASE Refused
  BY <1>0, <1>6 DEF Refused
<1>7. CASE Created
  BY <1>0, <1>7 DEF Created
<1>8. CASE AnswerLost
  BY <1>0, <1>8 DEF AnswerLost
<1>9. ASSUME NEW kind \in Kinds, Uploaded(kind) PROVE OnceInv'
  BY <1>0, <1>9 DEF Uploaded
<1>10. CASE Leave
  BY <1>0, <1>10 DEF Leave
<1> QED
  BY <1>2, <1>3, <1>4, <1>5, <1>6, <1>7, <1>8, <1>9, <1>10, OnceCreate
     DEF FormNext, SwitchCustomerSource, SwitchCustomer, SelectExistingCustomer,
         SelectCatalogAddress, StartNewAddress, TypePerson, TypeAddress, AttachFile

\* A form makes one sale and one more at most for each lost answer and each
\* click while the next page loads, for any people and any number of files.
THEOREM SoldOnceHolds == FormSpec => []SoldOnce
<1>1. OnceInv => SoldOnce
  BY FS_CardinalityType DEF OnceInv, SoldOnce
<1> QED
  BY <1>1, OnceInitInv, OnceNext, PTL DEF FormSpec

-----------------------------------------------------------------------------
(* The lookup of postal codes. *)

\* What was looked up last is on display, or the display was emptied.
Latest == latestCep = cep \/ cep = NoCep

\* A lookup fills only the address with its postal code, or one that was
\* emptied under it, however slow it is and however many are under way.
THEOREM FilledForItsCepHolds == LookupSpec => FilledForItsCep
<1>1. LookupInit => Latest
  BY DEF LookupInit, Latest
<1>2. ASSUME Latest, [LookupNext]_lookupVars
      PROVE  Latest' /\ (street' # street => street' \in {cep, NoCep} \/ cep = NoCep)
  <2>1. ASSUME NEW l, Found(l) PROVE Latest' /\ (street' # street => street' = cep \/ cep = NoCep)
    BY <1>2, <2>1 DEF Found, StillWanted, Latest
  <2>2. CASE UNCHANGED <<cep, latestCep, street>>
    BY <1>2, <2>2 DEF Latest
  <2>3. ASSUME NEW c, TypeCep(c) PROVE Latest' /\ UNCHANGED street
    BY <2>3 DEF TypeCep, Latest
  <2>4. CASE ClearAddress \/ Hide
    BY <2>4 DEF ClearAddress, Hide, Latest
  <2>5. ASSUME NEW l, NotFilled(l) \/ Ask(l) \/ GiveUp(l) PROVE UNCHANGED <<cep, latestCep, street>>
    BY <2>5 DEF NotFilled, Ask, GiveUp
  <2>6. ASSUME NEW l, NEW p, NEW word, ProviderSays(l, p, word)
        PROVE  UNCHANGED <<cep, latestCep, street>>
    BY <2>6 DEF ProviderSays
  <2>7. ASSUME NEW c, OtherAsks(c) PROVE UNCHANGED <<cep, latestCep, street>>
    BY <2>7 DEF OtherAsks
  <2>8. Show => UNCHANGED <<cep, latestCep, street>>
    BY DEF Show
  <2>9. UNCHANGED lookupVars => UNCHANGED <<cep, latestCep, street>>
    BY DEF lookupVars
  <2> QED
    BY <1>2, <2>1, <2>2, <2>3, <2>4, <2>5, <2>6, <2>7, <2>8, <2>9 DEF LookupNext
<1>3. Latest /\ [LookupNext]_lookupVars => Latest'
  BY <1>2
<1>4. Latest /\ [LookupNext]_lookupVars =>
        [street' # street => street' \in {cep, NoCep} \/ cep = NoCep]_lookupVars
  BY <1>2
<1> QED
  BY <1>1, <1>3, <1>4, PTL DEF LookupSpec, FilledForItsCep

\* The cache of the service: no more addresses than its limit, each of them once.
CacheBounded ==
    /\ Len(cache) <= CacheLimit
    /\ \A i, j \in DOMAIN cache : cache[i] = cache[j] => i = j

LEMMA RememberBounded ==
    ASSUME cache \in Seq(Ceps), CacheBounded, NEW c \in Ceps
    PROVE  /\ Remember(c) \in Seq(Ceps)
           /\ Len(Remember(c)) <= CacheLimit
           /\ \A i, j \in DOMAIN Remember(c) : Remember(c)[i] = Remember(c)[j] => i = j
<1> DEFINE room == IF Len(cache) >= CacheLimit THEN Tail(cache) ELSE cache
<1>1. /\ room \in Seq(Ceps) /\ Len(room) < CacheLimit
      /\ \A i, j \in 1..Len(room) : room[i] = room[j] => i = j
  <2>1. CASE Len(cache) >= CacheLimit
    <3>1. Len(cache) \in Nat /\ Len(cache) = CacheLimit /\ CacheLimit \in Nat \ {0}
      BY <2>1, LookupAssumption DEF CacheBounded
    <3>2. cache # << >>
      BY <3>1
    <3>3. /\ Tail(cache) \in Seq(Ceps) /\ Len(Tail(cache)) = Len(cache) - 1
          /\ \A i \in 1..(Len(cache) - 1) : Tail(cache)[i] = cache[i + 1]
      BY <3>2
    <3>4. \A i \in 1..(Len(cache) - 1) : i + 1 \in DOMAIN cache
      BY <3>1
    <3> QED
      BY <2>1, <3>1, <3>3, <3>4 DEF CacheBounded
  <2>2. CASE ~ (Len(cache) >= CacheLimit)
    BY <2>2, LookupAssumption DEF CacheBounded
  <2> QED
    BY <2>1, <2>2
<1>2. Remember(c) = IF \E i \in DOMAIN room : room[i] = c THEN room ELSE Append(room, c)
  BY DEF Remember
<1> HIDE DEF room
<1>3. CASE \E i \in DOMAIN room : room[i] = c
  BY <1>1, <1>2, <1>3, LookupAssumption
<1>4. CASE ~ \E i \in DOMAIN room : room[i] = c
  <2>1. /\ Append(room, c) \in Seq(Ceps) /\ Len(Append(room, c)) = Len(room) + 1
        /\ \A i \in 1..Len(room) : Append(room, c)[i] = room[i]
        /\ Append(room, c)[Len(room) + 1] = c
    BY <1>1
  <2>2. DOMAIN Append(room, c) = 1..(Len(room) + 1) /\ Len(room) \in Nat /\ DOMAIN room = 1..Len(room)
    BY <1>1, <2>1
  <2>3. \A i \in 1..(Len(room) + 1) : i = Len(room) + 1 \/ i \in 1..Len(room)
    BY <2>2
  <2> QED
    BY <1>1, <1>2, <1>4, <2>1, <2>2, <2>3, LookupAssumption
<1> QED
  BY <1>3, <1>4

\* A lookup is of a postal code.
Coded(l) == "cep" \in DOMAIN l /\ l.cep \in Ceps

\* The cache of the service holds no more addresses than CACHE_LIMIT, and each
\* of them once, however many lookups end at the same time.
THEOREM CacheBoundedHolds == LookupSpec => []CacheBounded
<1> DEFINE Inv == cache \in Seq(Ceps) /\ CacheBounded /\ \A l \in lookups : Coded(l)
<1>1. LookupInit => Inv
  BY LookupAssumption DEF LookupInit, CacheBounded
<1>2. Inv /\ [LookupNext]_lookupVars => Inv'
  <2> SUFFICES ASSUME Inv, [LookupNext]_lookupVars PROVE Inv'
    OBVIOUS
  <2>1. ASSUME UNCHANGED cache, \A l \in lookups' : Coded(l) PROVE Inv'
    BY <2>1 DEF CacheBounded
  <2>2. ASSUME NEW c \in Ceps, NEW fields, NEW result PROVE Coded(NewLookup(c, fields, result))
    BY DEF Coded, NewLookup
  <2>3. ASSUME NEW c \in Ceps \cup {NoCep}, TypeCep(c) PROVE Inv'
    <3>1. \A l : Coded(l) => Coded([l EXCEPT !.fields = @ \cup {mounted}])
      BY DEF Coded
    <3>2. UNCHANGED cache
      BY <2>3 DEF TypeCep
    <3>3. CASE UNCHANGED lookups
      BY <2>1, <3>2, <3>3
    <3>4. CASE c \in Ceps /\ lookups' \subseteq
                 {IF l \in Own(c) THEN [l EXCEPT !.fields = @ \cup {mounted}] ELSE l : l \in lookups}
      BY <2>1, <3>1, <3>2, <3>4
    <3>5. CASE \E result : c \in Ceps /\ lookups' = lookups \cup {NewLookup(c, {mounted}, result)}
      BY <2>1, <2>2, <3>2, <3>5
    <3> QED
      BY <2>3, <3>3, <3>4, <3>5 DEF TypeCep
  <2>4. ASSUME NEW c \in Ceps, OtherAsks(c) PROVE Inv'
    BY <2>1, <2>2, <2>4 DEF OtherAsks
  <2>5. CASE ClearAddress \/ Hide \/ Show
    BY <2>1, <2>5 DEF ClearAddress, Hide, Show
  <2>6. ASSUME NEW l \in lookups, Found(l) \/ NotFilled(l) PROVE Inv'
    BY <2>1, <2>6 DEF Found, NotFilled
  <2>7. ASSUME NEW l \in lookups, Ask(l) \/ GiveUp(l) PROVE Inv'
    <3>1. \A result : Coded([l EXCEPT !.result = result])
      BY DEF Coded
    <3>2. CASE Ask(l)
      BY <2>1, <3>1, <3>2 DEF Ask, Set
    <3>3. CASE GiveUp(l)
      BY <2>1, <3>1, <3>3 DEF GiveUp, Set
    <3> QED
      BY <2>7, <3>2, <3>3
  <2>8. ASSUME NEW l \in lookups, NEW p \in Providers, NEW word, ProviderSays(l, p, word) PROVE Inv'
    <3> DEFINE m == [l EXCEPT !.said[p] = word, !.result = IF word = "found" THEN "found" ELSE @]
    <3>1. lookups' = (lookups \ {l}) \cup {m} /\ Coded(m)
      BY <2>8 DEF ProviderSays, Set, Coded
    <3>2. \A k \in lookups' : Coded(k)
      BY <3>1
    <3>3. CASE word = "found"
      <4>1. cache' = Remember(l.cep) /\ l.cep \in Ceps
        BY <2>8, <3>3 DEF ProviderSays, Coded
      <4>2. cache' \in Seq(Ceps) /\ CacheBounded'
        BY <4>1, RememberBounded DEF CacheBounded
      <4> QED
        BY <3>2, <4>2
    <3>4. CASE word # "found"
      BY <2>1, <2>8, <3>2, <3>4 DEF ProviderSays
    <3> QED
      BY <3>3, <3>4
  <2>9. CASE UNCHANGED lookupVars
    BY <2>1, <2>9 DEF lookupVars
  <2> QED
    BY <2>3, <2>4, <2>5, <2>6, <2>7, <2>8, <2>9 DEF LookupNext
<1> QED
  BY <1>1, <1>2, PTL DEF LookupSpec

-----------------------------------------------------------------------------
(* SaleEdit. *)

\* What the fields of the form may hold.
Forms ==
    [notes : Texts \cup {Blank}, schedule : Texts \cup {Blank}, debit : BOOLEAN,
     bank : Banks \cup {Blank}, holder : {"customer", "other", Blank},
     cpf : Cpfs \cup {Blank, Masked}]

Patches ==
    [notes : Texts \cup {Absent}, schedule : Texts \cup {Blank, Absent}, debit : BOOLEAN,
     bank : Banks \cup {Blank, Absent}, holder : {"customer", "other", Blank, Absent},
     cpf : Cpfs \cup {Blank, Absent}]

\* The request is of the form as it was sent, which could be saved.
SentTrue ==
    at = "sent" =>
        patch = SalePayload(submitted) /\ (submitted.debit => BankDataComplete(submitted))

\* What passed the check is what the form showed, with a CPF that can be read.
CheckedTrue ==
    at = "checked" =>
        /\ patch.notes = OrAbsent(submitted.notes)
        /\ patch.schedule = submitted.schedule /\ patch.debit = submitted.debit
        /\ submitted.debit =>
             /\ patch.bank = submitted.bank /\ patch.bank # Blank
             /\ patch.holder = submitted.holder /\ patch.holder \in {"customer", "other"}
        /\ ~ submitted.debit => patch.bank = Blank /\ patch.holder = Blank
        /\ patch.cpf = (IF submitted.debit /\ submitted.holder = "other" THEN submitted.cpf ELSE Blank)
        /\ submitted.debit /\ submitted.holder = "other" => patch.cpf \in Cpfs

EditInv ==
    /\ stored \in Rows /\ viewer \in BOOLEAN
    /\ edited \in Forms /\ copy \in Forms /\ submitted \in Forms /\ patch \in Patches
    /\ at \in {"closed", "open", "sent", "checked", "saved", "refused"}
    /\ \A f \in {edited, copy, submitted} : f.cpf = Masked => ~ viewer
    /\ SentTrue /\ CheckedTrue

-----------------------------------------------------------------------------
LEMMA RowsTyped ==
    ASSUME NEW r \in Rows
    PROVE  /\ r \in Forms /\ r.cpf # Masked
           /\ r.bank \in Banks \cup {Blank} /\ r.holder \in {"customer", "other", Blank}
           /\ r.cpf \in Cpfs \cup {Blank} /\ r.notes \in Texts \cup {Blank}
           /\ r.schedule \in Texts \cup {Blank}
BY SaleEditAssumption DEF Rows, Forms

LEMMA ShownTyped ==
    ASSUME NEW r \in Rows, viewer \in BOOLEAN
    PROVE  /\ Shown(r) \in Forms
           /\ Shown(r).bank = r.bank /\ Shown(r).holder = r.holder
           /\ Shown(r).cpf = IF r.cpf # Blank /\ ~ viewer THEN Masked ELSE r.cpf
           /\ Shown(r).cpf = Masked => ~ viewer
<1>1. r \in Forms /\ r.cpf # Masked
  BY RowsTyped
<1>2. CASE r.cpf # Blank /\ ~ viewer
  BY <1>1, <1>2 DEF Shown, Forms
<1>3. CASE ~ (r.cpf # Blank /\ ~ viewer)
  BY <1>1, <1>3 DEF Shown
<1> QED
  BY <1>2, <1>3

LEMMA EditInit == SaleEditInit => EditInv
<1> SUFFICES ASSUME SaleEditInit PROVE EditInv
  OBVIOUS
<1>1. patch \in Patches
  BY DEF SaleEditInit, NoPatch, Patches
<1> QED
  BY <1>1, RowsTyped DEF SaleEditInit, EditInv, SentTrue, CheckedTrue

LEMMA TypeStep ==
    ASSUME EditInv, Type
    PROVE  EditInv'
<1>1. edited \in Forms /\ UNCHANGED <<stored, viewer, copy, submitted, patch, at>>
  BY DEF EditInv, Type
<1>2. edited' \in Forms /\ (edited'.cpf = Masked => edited.cpf = Masked)
  <2>1. ASSUME NEW t \in Texts \cup {Blank}, edited' = [edited EXCEPT !.notes = t]
        PROVE  edited' \in Forms /\ edited'.cpf = edited.cpf
    BY <1>1, <2>1 DEF Forms
  <2>2. ASSUME NEW t \in Texts \cup {Blank}, edited' = [edited EXCEPT !.schedule = t]
        PROVE  edited' \in Forms /\ edited'.cpf = edited.cpf
    BY <1>1, <2>2 DEF Forms
  <2>3. ASSUME edited' = [edited EXCEPT !.debit = ~ @]
        PROVE  edited' \in Forms /\ edited'.cpf = edited.cpf
    <3>1. (~ edited.debit) \in BOOLEAN
      BY <1>1 DEF Forms
    <3> QED
      BY <1>1, <2>3, <3>1 DEF Forms
  <2>4. ASSUME NEW b \in Banks, edited' = [edited EXCEPT !.bank = b]
        PROVE  edited' \in Forms /\ edited'.cpf = edited.cpf
    BY <1>1, <2>4 DEF Forms
  <2>5. ASSUME NEW h \in {"customer", "other"}, edited' = [edited EXCEPT !.holder = h]
        PROVE  edited' \in Forms /\ edited'.cpf = edited.cpf
    BY <1>1, <2>5 DEF Forms
  <2>6. ASSUME NEW c \in Cpfs, edited' = [edited EXCEPT !.cpf = c]
        PROVE  edited' \in Forms /\ edited'.cpf # Masked
    BY <1>1, <2>6, SaleEditAssumption DEF Forms
  <2> QED
    BY <2>1, <2>2, <2>3, <2>4, <2>5, <2>6 DEF Type
<1> QED
  BY <1>1, <1>2 DEF EditInv, SentTrue, CheckedTrue

LEMMA PayloadTyped ==
    ASSUME NEW f \in Forms
    PROVE  /\ SalePayload(f) \in Patches
           /\ SalePayload(f).notes = OrAbsent(f.notes) /\ SalePayload(f).schedule = f.schedule
           /\ SalePayload(f).debit = f.debit
           /\ SalePayload(f).bank = IF f.debit THEN f.bank ELSE Absent
           /\ SalePayload(f).holder = IF f.debit THEN f.holder ELSE Absent
           /\ SalePayload(f).cpf = IF f.debit /\ f.holder = "other" /\ f.cpf # Masked
                                THEN f.cpf ELSE Absent
BY DEF SalePayload, OrAbsent, Forms, Patches

\* What the check lets through is what the form showed.
LEMMA CheckStep ==
    ASSUME EditInv, Check
    PROVE  EditInv'
<1>1. /\ at = "sent" /\ patch = SalePayload(submitted)
      /\ (submitted.debit => BankDataComplete(submitted))
      /\ UNCHANGED <<stored, viewer, copy, edited, submitted>>
      /\ submitted \in Forms /\ patch \in Patches
      /\ patch.debit = submitted.debit
  BY PayloadTyped DEF Check, EditInv, SentTrue
<1>2. CASE patch.debit /\ ~ Accepts(NextBankData)
  BY <1>1, <1>2 DEF Check, EditInv, SentTrue, CheckedTrue
<1>3. CASE ~ (patch.debit /\ ~ Accepts(NextBankData))
  <2> DEFINE data == IF patch.debit THEN Resolved(NextBankData) ELSE EmptyBankData
             next == NextBankData
  <2>1. at' = "checked"
        /\ patch' = [patch EXCEPT !.bank = data.bank, !.holder = data.holder, !.cpf = data.cpf]
    BY <1>3 DEF Check
  <2>2. /\ next.bank = OrElse(patch.bank, Shown(stored).bank)
        /\ next.holder = OrElse(patch.holder, Shown(stored).holder)
        /\ next.cpf = OrElse(patch.cpf, Shown(stored).cpf)
        /\ next = [bank |-> next.bank, holder |-> next.holder, cpf |-> next.cpf]
    BY DEF NextBankData
  <2>3. CASE submitted.debit
    <3>1. /\ submitted.bank # Blank /\ submitted.holder \in {"customer", "other"}
          /\ submitted.bank # Absent /\ submitted.holder # Absent
          /\ submitted.holder = "other" => submitted.cpf = Masked \/ submitted.cpf \in Cpfs
      BY <1>1, <2>3, SaleEditAssumption DEF BankDataComplete, IsCpf, Forms
    <3>2. next.bank = submitted.bank /\ next.holder = submitted.holder
      BY <1>1, <2>2, <2>3, <3>1, PayloadTyped DEF OrElse
    <3>3. submitted.holder = "other" => next.cpf \in Cpfs
      BY <1>1, <1>3, <2>3, <3>2 DEF Accepts, IsCpf
    <3>4. submitted.holder = "other" => next.cpf = submitted.cpf
      <4>1. CASE submitted.holder = "other" /\ submitted.cpf = Masked
        <5>1. patch.cpf = Absent /\ ~ viewer
          BY <1>1, <4>1, PayloadTyped DEF EditInv
        <5>2. Shown(stored).cpf \in {Masked, Blank}
          BY <5>1, ShownTyped DEF EditInv
        <5> QED
          BY <2>2, <3>3, <4>1, <5>1, <5>2, SaleEditAssumption DEF OrElse
      <4>2. CASE submitted.holder = "other" /\ submitted.cpf # Masked
        <5>1. patch.cpf = submitted.cpf /\ submitted.cpf # Absent
          BY <1>1, <2>3, <3>1, <4>2, PayloadTyped, SaleEditAssumption
        <5> QED
          BY <2>2, <5>1 DEF OrElse
      <4> QED
        BY <4>1, <4>2
    <3>5. /\ data.bank = submitted.bank /\ data.holder = submitted.holder
          /\ data.cpf = IF submitted.holder = "other" THEN submitted.cpf ELSE Blank
      <4>1. data = Resolved(next)
        BY <1>1, <2>3
      <4>2. CASE submitted.holder = "customer"
        BY <2>2, <3>2, <4>1, <4>2 DEF Resolved
      <4>3. CASE submitted.holder = "other"
        BY <3>2, <3>4, <4>1, <4>3 DEF Resolved
      <4> QED
        BY <3>1, <4>2, <4>3
    <3> HIDE DEF data, next
    <3>6. patch' \in Patches /\ CheckedTrue'
      BY <1>1, <2>1, <2>3, <3>1, <3>3, <3>4, <3>5, PayloadTyped DEF CheckedTrue, Patches, Forms
    <3> QED
      BY <1>1, <2>1, <3>6 DEF EditInv, SentTrue
  <2>4. CASE ~ submitted.debit
    <3>1. data.bank = Blank /\ data.holder = Blank /\ data.cpf = Blank
      BY <1>1, <2>4 DEF EmptyBankData
    <3> HIDE DEF data, next
    <3>2. patch' \in Patches /\ CheckedTrue'
      BY <1>1, <2>1, <2>4, <3>1, PayloadTyped DEF CheckedTrue, Patches, Forms
    <3> QED
      BY <1>1, <2>1, <3>2 DEF EditInv, SentTrue
  <2> QED
    BY <2>3, <2>4 DEF Forms
<1> QED
  BY <1>2, <1>3

LEMMA WriteStep ==
    ASSUME EditInv, Write
    PROVE  /\ EditInv'
           /\ stored'.schedule = submitted.schedule
           /\ stored'.notes = (IF submitted.notes = Blank THEN stored.notes ELSE submitted.notes)
           /\ stored'.debit = submitted.debit
           /\ submitted.debit => stored'.bank = submitted.bank /\ stored'.holder = submitted.holder
           /\ stored'.cpf = IF submitted.debit /\ submitted.holder = "other" THEN submitted.cpf ELSE Blank
<1>1. /\ at = "checked" /\ CheckedTrue /\ patch \in Patches /\ submitted \in Forms /\ stored \in Rows
      /\ stored' = [patch EXCEPT !.notes = OrElse(patch.notes, stored.notes),
                                 !.schedule = OrElse(patch.schedule, stored.schedule)]
      /\ at' = "saved" /\ UNCHANGED <<viewer, copy, edited, submitted, patch>>
  BY DEF Write, EditInv
<1>2. /\ submitted.notes \in Texts \cup {Blank} /\ submitted.schedule \in Texts \cup {Blank}
      /\ submitted.debit \in BOOLEAN /\ submitted.bank \in Banks \cup {Blank}
      /\ submitted.holder \in {"customer", "other", Blank}
      /\ submitted.cpf \in Cpfs \cup {Blank, Masked}
  BY <1>1 DEF Forms
<1>3. /\ OrElse(patch.schedule, stored.schedule) = submitted.schedule
      /\ OrElse(patch.notes, stored.notes) =
            (IF submitted.notes = Blank THEN stored.notes ELSE submitted.notes)
      /\ OrElse(patch.notes, stored.notes) \in Texts \cup {Blank}
  BY <1>1, <1>2, RowsTyped, SaleEditAssumption DEF CheckedTrue, OrElse, OrAbsent
<1>4. /\ stored'.notes = OrElse(patch.notes, stored.notes)
      /\ stored'.schedule = submitted.schedule /\ stored'.debit = patch.debit
      /\ stored'.bank = patch.bank /\ stored'.holder = patch.holder /\ stored'.cpf = patch.cpf
      /\ stored' = [notes |-> stored'.notes, schedule |-> stored'.schedule, debit |-> stored'.debit,
                    bank |-> stored'.bank, holder |-> stored'.holder, cpf |-> stored'.cpf]
  BY <1>1, <1>3 DEF Patches
<1>5. stored' \in Rows
  <2>1. /\ stored'.notes \in Texts \cup {Blank} /\ stored'.schedule \in Texts \cup {Blank}
        /\ stored'.debit \in BOOLEAN /\ stored'.bank \in Banks \cup {Blank}
        /\ stored'.holder \in {"customer", "other", Blank} /\ stored'.cpf \in Cpfs \cup {Blank}
    BY <1>1, <1>2, <1>3, <1>4, SaleEditAssumption DEF CheckedTrue
  <2>2. /\ stored'.debit <=> stored'.bank # Blank
        /\ stored'.debit <=> stored'.holder # Blank
        /\ stored'.holder = "other" <=> stored'.cpf # Blank
    <3>1. CASE submitted.debit
      BY <1>1, <1>2, <1>4, <3>1, SaleEditAssumption DEF CheckedTrue
    <3>2. CASE ~ submitted.debit
      BY <1>1, <1>2, <1>4, <3>2, SaleEditAssumption DEF CheckedTrue
    <3> QED
      BY <3>1, <3>2
  <2>3. stored' \in [notes : Texts \cup {Blank}, schedule : Texts \cup {Blank}, debit : BOOLEAN,
                    bank : Banks \cup {Blank}, holder : {"customer", "other", Blank},
                    cpf : Cpfs \cup {Blank}]
    BY <1>4, <2>1
  <2> QED
    BY <2>2, <2>3 DEF Rows
<1>6. EditInv'
  BY <1>1, <1>5 DEF EditInv, SentTrue, CheckedTrue
<1> QED
  BY <1>1, <1>3, <1>4, <1>6 DEF CheckedTrue

LEMMA EditNext == EditInv /\ [SaleEditNext]_editVars => EditInv'
<1> SUFFICES ASSUME EditInv, [SaleEditNext]_editVars PROVE EditInv'
  OBVIOUS
<1>1. CASE Open
  BY <1>1, ShownTyped DEF Open, EditInv, SentTrue, CheckedTrue
<1>2. CASE Save
  BY <1>2, PayloadTyped DEF Save, EditInv, SentTrue, CheckedTrue, SalePayload, BankDataComplete, OrAbsent
<1>3. CASE Answer
  <2>1. NoPatch \in Patches
    BY DEF NoPatch, Patches
  <2>2. /\ stored' = stored /\ viewer' = viewer /\ copy' = copy /\ patch' = NoPatch
        /\ submitted' = copy /\ edited' \in {copy, edited} /\ at' \in {"closed", "open"}
    BY <1>3 DEF Answer
  <2>3. /\ stored \in Rows /\ viewer \in BOOLEAN /\ edited \in Forms /\ copy \in Forms
        /\ \A f \in {edited, copy, submitted} : f.cpf = Masked => ~ viewer
    BY DEF EditInv
  <2>4. SentTrue' /\ CheckedTrue'
    BY <2>2 DEF SentTrue, CheckedTrue
  <2>5. \A f \in {edited', copy', submitted'} : f.cpf = Masked => ~ viewer'
    BY <2>2, <2>3
  <2> QED
    BY <2>1, <2>2, <2>3, <2>4, <2>5 DEF EditInv
<1>4. ASSUME NEW row \in Rows, OtherEdit(row) PROVE EditInv'
  BY <1>4 DEF OtherEdit, EditInv, SentTrue, CheckedTrue, SalePayload, BankDataComplete, OrAbsent, IsCpf
<1>5. CASE UNCHANGED editVars
  BY <1>5 DEF editVars, EditInv, SentTrue, CheckedTrue, SalePayload, BankDataComplete, OrAbsent, IsCpf
<1> QED
  BY <1>1, <1>2, <1>3, <1>4, <1>5, TypeStep, CheckStep, WriteStep DEF SaleEditNext

-----------------------------------------------------------------------------
\* Whatever the row becomes between the check of an edit and its write, it has
\* bank data for a direct debit and only then, and no mask for a CPF.
THEOREM RowConsistentHolds == SaleEditSpec => []RowConsistent
BY EditInit, EditNext, PTL DEF SaleEditSpec, EditInv, RowConsistent

\* A save leaves what the form showed when it was sent, and a masked CPF is never taken for one.
THEOREM SavedAsShownHolds == SaleEditSpec => SavedAsShown
<1>1. ASSUME EditInv, [SaleEditNext]_editVars, at = "checked", at' = "saved" PROVE Write
  BY <1>1 DEF SaleEditNext, editVars, Open, Type, Save, Check, Answer, OtherEdit
<1>2. EditInv /\ [SaleEditNext]_editVars =>
        [at = "checked" /\ at' = "saved" =>
           /\ stored'.schedule = submitted.schedule
           /\ stored'.notes = (IF submitted.notes = Blank THEN stored.notes ELSE submitted.notes)
           /\ stored'.debit = submitted.debit
           /\ submitted.debit => stored'.bank = submitted.bank /\ stored'.holder = submitted.holder
           /\ stored'.cpf = (IF submitted.debit /\ submitted.holder = "other" THEN submitted.cpf ELSE Blank)
        ]_editVars
  BY <1>1, WriteStep
<1> QED
  BY <1>2, EditInit, EditNext, PTL DEF SaleEditSpec, SavedAsShown

-----------------------------------------------------------------------------
(* Bell. *)

Moments == [arrivals : Nat, reads : Nat]

\* The database did not count less at moment m than it does at moment n in
\* either of the two histories.
Before(m, n) == m.arrivals <= n.arrivals /\ m.reads <= n.reads

\* What unread was at moment m.
CountAt(m) == unread + reads - arrivals + m.arrivals - m.reads

Counted(t) == polls[t].at = "counted"

BellTyped ==
    /\ unread \in Nat /\ arrivals \in Nat /\ reads \in Nat
    /\ sounds \in Nat /\ late \in Nat
    /\ announced \in Nat \cup {NoCount}
    /\ previous \in [Tabs -> Nat \cup {NoCount}]
    /\ polls \in [Tabs -> [at : {"none", "sent", "counted"}, count : Nat, moment : Moments]]
    /\ newest \in Moments

\* An answer on its way is what the database counted at its moment, and the
\* moments of all of them are in one order with that of the newest count.
AnswersTrue ==
    /\ \A t \in Tabs : Counted(t) =>
         /\ Before(polls[t].moment, Moment)
         /\ polls[t].count = CountAt(polls[t].moment)
         /\ Before(polls[t].moment, newest) \/ Before(newest, polls[t].moment)
    /\ Before(newest, Moment)
    /\ \A s, t \in Tabs : Counted(s) /\ Counted(t) =>
         Before(polls[s].moment, polls[t].moment) \/ Before(polls[t].moment, polls[s].moment)

\* A sound is owed when what was announced is less than the newest count: the
\* next tab may play it although nothing arrived since.
Owed == IF announced < CountAt(newest) THEN 1 ELSE 0

SoundsBounded ==
    \/ sounds = 0 /\ \A t \in Tabs : previous[t] = NoCount
    \/ announced # NoCount /\ sounds + Owed <= newest.arrivals + late

HasAnnounced == (\E t \in Tabs : previous[t] # NoCount) => announced # NoCount

BellInv == BellTyped /\ AnswersTrue /\ SoundsBounded /\ HasAnnounced

-----------------------------------------------------------------------------
LEMMA BellInitInv == BellInit => BellInv
<1> SUFFICES ASSUME BellInit PROVE BellInv
  OBVIOUS
<1>1. Start \in Moments /\ NoPoll \in [at : {"none", "sent", "counted"}, count : Nat, moment : Moments]
  BY DEF Start, NoPoll, Moments
<1>2. BellTyped
  BY <1>1 DEF BellInit, BellTyped
<1>3. AnswersTrue
  BY DEF BellInit, AnswersTrue, Counted, NoPoll, Before, Moment, Start
<1> QED
  BY <1>2, <1>3 DEF BellInit, BellInv, SoundsBounded, HasAnnounced

\* A step that adds a notification or a read, or drops polls, and leaves the
\* count to what was added and read, keeps what is known of the answers.
LEMMA Later ==
    ASSUME BellInv,
           unread' \in Nat, arrivals' \in Nat, reads' \in Nat,
           Before(Moment, Moment'),
           unread' + reads' - arrivals' = unread + reads - arrivals,
           polls' \in [Tabs -> [at : {"none", "sent", "counted"}, count : Nat, moment : Moments]],
           \A t \in Tabs : Counted(t)' => Counted(t) /\ polls'[t] = polls[t],
           UNCHANGED <<announced, sounds, newest, late>>,
           \A t \in Tabs : previous'[t] \in {previous[t], NoCount},
           previous' \in [Tabs -> Nat \cup {NoCount}]
    PROVE  BellInv'
<1>1. BellTyped'
  BY DEF BellInv, BellTyped
<1>2. \A m \in Moments : CountAt(m)' = CountAt(m)
  BY DEF CountAt, BellInv, BellTyped, Moments
<1>3. \A m \in Moments : Before(m, Moment) => Before(m, Moment')
  BY DEF Before, Moments, Moment, BellInv, BellTyped
<1>4. \A t \in Tabs : polls[t].moment \in Moments
  BY DEF BellInv, BellTyped
<1>5. AnswersTrue'
  <2>1. newest' = newest /\ newest \in Moments
    BY DEF BellInv, BellTyped
  <2>2. Before(newest, Moment)' 
    BY <1>3, <2>1 DEF BellInv, AnswersTrue, Before
  <2>3. ASSUME NEW t \in Tabs, Counted(t)'
        PROVE  /\ Before(polls[t].moment, Moment)'
               /\ polls'[t].count = CountAt(polls[t].moment)'
               /\ Before(polls[t].moment, newest)' \/ Before(newest, polls[t].moment)'
    <3>1. Counted(t) /\ polls'[t] = polls[t]
      BY <2>3
    <3>2. Before(polls[t].moment, Moment')
      BY <3>1, <1>3, <1>4 DEF BellInv, AnswersTrue
    <3>3. CountAt(polls[t].moment)' = CountAt(polls[t].moment)
      <4> DEFINE m == polls[t].moment
      <4>1. \A n \in Moments : n = polls[t].moment => CountAt(polls[t].moment)' = CountAt(n)'
        BY <3>1 DEF CountAt
      <4> QED
        BY <4>1, <1>2, <1>4
    <3> QED
      BY <3>1, <3>2, <3>3, <2>1 DEF BellInv, AnswersTrue, Before
  <2>4. ASSUME NEW s \in Tabs, NEW t \in Tabs, Counted(s)', Counted(t)'
        PROVE  Before(polls[s].moment, polls[t].moment)' \/ Before(polls[t].moment, polls[s].moment)'
    <3>1. Counted(s) /\ polls'[s] = polls[s] /\ Counted(t) /\ polls'[t] = polls[t]
      BY <2>4
    <3> QED
      BY <3>1 DEF BellInv, AnswersTrue, Before
  <2> QED
    BY <2>2, <2>3, <2>4 DEF AnswersTrue
<1>6. SoundsBounded'
  <2>1. CountAt(newest)' = CountAt(newest)
    <3>1. \A n \in Moments : n = newest => CountAt(newest)' = CountAt(n)'
      BY DEF CountAt
    <3> QED
      BY <3>1, <1>2 DEF BellInv, BellTyped
  <2>2. Owed' = Owed
    BY <2>1 DEF Owed
  <2> QED
    BY <2>2 DEF BellInv, SoundsBounded
<1>7. HasAnnounced'
  BY DEF BellInv, HasAnnounced
<1> QED
  BY <1>1, <1>5, <1>6, <1>7 DEF BellInv

\* The answer that a poll gets is the newest of all.
LEMMA UnreadCountInv ==
    ASSUME BellInv, NEW t \in Tabs, UnreadCount(t)
    PROVE  BellInv'
<1>1. Moment \in Moments /\ Moment' = Moment /\ newest' = newest /\ newest \in Moments
  BY DEF UnreadCount, Moment, Moments, BellInv, BellTyped
<1>2. polls' = [polls EXCEPT ![t] = [at |-> "counted", count |-> unread, moment |-> Moment]]
  BY DEF UnreadCount
<1>3. BellTyped'
  BY <1>1, <1>2 DEF BellInv, BellTyped, UnreadCount
<1>4. \A s \in Tabs : polls[s].moment \in Moments
  BY DEF BellInv, BellTyped
<1>5. polls'[t].at = "counted" /\ polls'[t].moment = Moment /\ polls'[t].count = CountAt(Moment)
  BY <1>2 DEF BellInv, BellTyped, CountAt, Moment
<1>6. \A s \in Tabs \ {t} : polls'[s] = polls[s]
  BY <1>2 DEF BellInv, BellTyped
<1>7. AnswersTrue'
  <2>1. \A m : m \in Moments => Before(m, m)
    BY DEF Before, Moments
  <2>2. ASSUME NEW s \in Tabs, Counted(s)'
        PROVE  /\ Before(polls[s].moment, Moment)'
               /\ polls'[s].count = CountAt(polls[s].moment)'
               /\ Before(polls[s].moment, newest)' \/ Before(newest, polls[s].moment)'
    <3>1. CASE s = t
      BY <3>1, <2>1, <1>1, <1>5 DEF BellInv, AnswersTrue, Before, CountAt, UnreadCount
    <3>2. CASE s # t
      BY <3>2, <2>2, <1>1, <1>6 DEF BellInv, AnswersTrue, Before, CountAt, UnreadCount, Counted
    <3> QED
      BY <3>1, <3>2
  <2>3. ASSUME NEW r \in Tabs, NEW s \in Tabs, Counted(r)', Counted(s)'
        PROVE  Before(polls[r].moment, polls[s].moment)' \/ Before(polls[s].moment, polls[r].moment)'
    <3>1. \A q \in Tabs : Counted(q)' => Before(polls[q].moment, Moment)'
      BY <2>2
    <3>2. CASE r = t \/ s = t
      BY <3>1, <3>2, <2>3, <1>1, <1>5 DEF Before
    <3>3. CASE r # t /\ s # t
      BY <3>3, <2>3, <1>6 DEF BellInv, AnswersTrue, Before, Counted
    <3> QED
      BY <3>2, <3>3
  <2>4. Before(newest, Moment)'
    BY <1>1 DEF BellInv, AnswersTrue, Before
  <2> QED
    BY <2>2, <2>3, <2>4 DEF AnswersTrue
<1>8. SoundsBounded' /\ HasAnnounced'
  BY DEF BellInv, SoundsBounded, HasAnnounced, Owed, CountAt, UnreadCount
<1> QED
  BY <1>3, <1>7, <1>8 DEF BellInv

\* A tab acts on an answer: a sound is paid for by a notification that the
\* newest count did not have yet, by the one still owed, or by the answer
\* being late.
LEMMA ArrivalInv ==
    ASSUME BellInv, NEW t \in Tabs, Arrival(t)
    PROVE  BellInv'
<1> DEFINE c == polls[t].count
           m == polls[t].moment
<1>1. /\ polls[t].at = "counted" /\ c \in Nat /\ m \in Moments /\ newest \in Moments
      /\ c = CountAt(m) /\ (Before(m, newest) \/ Before(newest, m))
      /\ Before(m, Moment) /\ Before(newest, Moment)
      /\ unread \in Nat /\ arrivals \in Nat /\ reads \in Nat /\ sounds \in Nat /\ late \in Nat
      /\ c # NoCount
  BY BellAssumption DEF Arrival, BellInv, BellTyped, AnswersTrue, Counted
<1>2. polls' = [polls EXCEPT ![t] = NoPoll] /\ UNCHANGED <<unread, arrivals, reads>>
  BY DEF Arrival
<1>3. NoPoll \in [at : {"none", "sent", "counted"}, count : Nat, moment : Moments] /\ NoPoll.at # "counted"
  BY DEF NoPoll, Start, Moments
<1>4. /\ polls' \in [Tabs -> [at : {"none", "sent", "counted"}, count : Nat, moment : Moments]]
      /\ \A s \in Tabs : Counted(s)' => s # t /\ Counted(s) /\ polls'[s] = polls[s]
  BY <1>2, <1>3 DEF BellInv, BellTyped, Counted
<1>5. CASE c = previous[t]
  BY <1>2, <1>4, <1>5, Later, <1>1 DEF Arrival, Before, Moment, BellInv, BellTyped
<1>6. CASE c # previous[t]
  <2>1. /\ sounds' = IF Plays(t, c) THEN sounds + 1 ELSE sounds
        /\ announced' = c
        /\ previous' = [previous EXCEPT ![t] = c]
        /\ IF Older(m, newest)
           THEN late' = late + 1 /\ UNCHANGED newest
           ELSE newest' = m /\ UNCHANGED late
    BY <1>6 DEF Arrival
  <2>2. BellTyped'
    BY <1>1, <1>2, <1>4, <2>1 DEF BellInv, BellTyped
  <2>3. newest' = newest \/ newest' = m
    BY <2>1
  <2>4. AnswersTrue'
    <3>1. Before(newest, Moment)'
      BY <1>1, <1>2, <2>3 DEF Before, Moment
    <3>2. ASSUME NEW s \in Tabs, Counted(s)'
          PROVE  /\ Before(polls[s].moment, Moment)'
                 /\ polls'[s].count = CountAt(polls[s].moment)'
                 /\ Before(polls[s].moment, newest)' \/ Before(newest, polls[s].moment)'
      <4>1. Counted(s) /\ Counted(t) /\ polls'[s] = polls[s]
        BY <3>2, <1>4, <1>1 DEF Counted
      <4> QED
        BY <4>1, <1>2, <2>3 DEF BellInv, AnswersTrue, Before, CountAt, Moment
    <3>3. ASSUME NEW r \in Tabs, NEW s \in Tabs, Counted(r)', Counted(s)'
          PROVE  Before(polls[r].moment, polls[s].moment)' \/ Before(polls[s].moment, polls[r].moment)'
      BY <3>3, <1>4 DEF BellInv, AnswersTrue, Before, Counted
    <3> QED
      BY <3>1, <3>2, <3>3 DEF AnswersTrue
  <2>5. announced' # NoCount
    BY <2>1, <1>1
  <2>6. sounds' + Owed' <= newest'.arrivals + late'
    <3>1. Owed' = IF c < CountAt(newest)' THEN 1 ELSE 0
      BY <2>1 DEF Owed
    <3>2. CountAt(newest)' = unread + reads - arrivals + newest'.arrivals - newest'.reads
      BY <1>2 DEF CountAt
    <3>4. /\ m.arrivals \in Nat /\ m.reads \in Nat
          /\ newest.arrivals \in Nat /\ newest.reads \in Nat
      BY <1>1 DEF Moments
    <3>3. c = unread + reads - arrivals + m.arrivals - m.reads
      <4>1. CountAt(m) = unread + reads - arrivals + m.arrivals - m.reads
        BY DEF CountAt
      <4> QED
        BY <4>1, <1>1
    <3>5. Plays(t, c) =>
            announced \in Nat /\ announced < c /\ sounds + Owed <= newest.arrivals + late
      BY DEF Plays, BellInv, HasAnnounced, SoundsBounded, BellTyped
    <3>6. sounds <= newest.arrivals + late
      <4>1. Owed \in {0, 1}
        BY DEF Owed
      <4> QED
        BY <4>1, <1>1, <3>4 DEF BellInv, SoundsBounded
    <3>7. Owed = IF announced < CountAt(newest) THEN 1 ELSE 0
      BY DEF Owed
    <3>8. CountAt(newest) = unread + reads - arrivals + newest.arrivals - newest.reads
      BY DEF CountAt
    <3>9. CASE Older(m, newest)
      <4>1. newest' = newest /\ late' = late + 1
        BY <2>1, <3>9
      <4>2. CASE Plays(t, c)
        <5>1. announced \in Nat /\ announced < c /\ sounds + Owed <= newest.arrivals + late
          BY <3>5, <4>2
        <5>2. sounds' = sounds + 1
          BY <2>1, <4>2
        <5> HIDE DEF c, m
        <5> QED
          BY <5>1, <5>2, <4>1, <3>1, <3>2, <3>7, <3>8, <1>1, <3>4
      <4>3. CASE ~Plays(t, c)
        <5>1. sounds' = sounds
          BY <2>1, <4>3
        <5> HIDE DEF c, m
        <5> QED
          BY <5>1, <4>1, <3>1, <3>6, <1>1, <3>4
      <4> QED
        BY <4>2, <4>3
    <3>10. CASE ~Older(m, newest)
      <4>1. newest' = m /\ late' = late
        BY <2>1, <3>10
      <4>2. newest.arrivals <= m.arrivals /\ newest.reads <= m.reads
        BY <3>10, <1>1, <3>4 DEF Older, Before
      <4>3. Owed' = 0
        <5>1. CountAt(newest)' = c
          BY <4>1, <3>2, <3>3
        <5> QED
          BY <5>1, <3>1, <1>1
      <4>4. CASE Plays(t, c)
        <5>1. announced \in Nat /\ announced < c /\ sounds + Owed <= newest.arrivals + late
          BY <3>5, <4>4
        <5>2. sounds' = sounds + 1
          BY <2>1, <4>4
        <5> HIDE DEF c, m
        <5> QED
          BY <5>1, <5>2, <4>1, <4>2, <4>3, <3>3, <3>6, <3>7, <3>8, <1>1, <3>4
      <4>5. CASE ~Plays(t, c)
        <5>1. sounds' = sounds
          BY <2>1, <4>5
        <5> HIDE DEF c, m
        <5> QED
          BY <5>1, <4>1, <4>2, <4>3, <3>6, <1>1, <3>4
      <4> QED
        BY <4>4, <4>5
    <3> QED
      BY <3>9, <3>10
  <2> QED
    BY <2>2, <2>4, <2>5, <2>6 DEF BellInv, SoundsBounded, HasAnnounced
<1> QED
  BY <1>5, <1>6

\* Every step keeps the invariant.
LEMMA BellNextInv == BellInv /\ [BellNext]_bellVars => BellInv'
<1> SUFFICES ASSUME BellInv, [BellNext]_bellVars PROVE BellInv'
  OBVIOUS
<1>0. /\ unread \in Nat /\ arrivals \in Nat /\ reads \in Nat
      /\ NoPoll \in [at : {"none", "sent", "counted"}, count : Nat, moment : Moments]
      /\ [NoPoll EXCEPT !.at = "sent"] \in [at : {"none", "sent", "counted"}, count : Nat, moment : Moments]
      /\ NoPoll.at # "counted" /\ [NoPoll EXCEPT !.at = "sent"].at # "counted"
  BY DEF BellInv, BellTyped, NoPoll, Start, Moments
<1>1. CASE Notify
  BY <1>0, <1>1, Later DEF Notify, Before, Moment, Counted, BellInv, BellTyped
<1>2. ASSUME NEW n \in 1..MaxReads, NEW tabs, MarkRead(n, tabs) PROVE BellInv'
  <2>1. n \in Nat /\ n <= unread /\ unread' = unread - n /\ reads' = reads + n
    BY <1>0, <1>2 DEF MarkRead
  <2>2. \A t \in Tabs : polls'[t] = IF t \in tabs THEN [NoPoll EXCEPT !.at = "sent"] ELSE polls[t]
    BY <1>2 DEF MarkRead
  <2>3. polls' \in [Tabs -> [at : {"none", "sent", "counted"}, count : Nat, moment : Moments]]
    BY <1>0, <1>2 DEF MarkRead, BellInv, BellTyped
  <2>4. \A t \in Tabs : Counted(t)' => Counted(t) /\ polls'[t] = polls[t]
    BY <1>0, <2>2 DEF Counted
  <2>5. unread' \in Nat /\ reads' \in Nat /\ unread' + reads' - arrivals = unread + reads - arrivals
    BY <2>1, <1>0
  <2>6. UNCHANGED <<arrivals, announced, previous, sounds, newest, late>>
    BY <1>2 DEF MarkRead
  <2>7. Before(Moment, Moment')
    BY <2>1, <2>6, <1>0 DEF Before, Moment
  <2> QED
    BY <2>3, <2>4, <2>5, <2>6, <2>7, <1>0, Later DEF BellInv, BellTyped
<1>3. ASSUME NEW t \in Tabs, Poll(t) PROVE BellInv'
  <2>1. /\ polls' \in [Tabs -> [at : {"none", "sent", "counted"}, count : Nat, moment : Moments]]
        /\ \A s \in Tabs : Counted(s)' => Counted(s) /\ polls'[s] = polls[s]
    BY <1>3 DEF Poll, Counted, BellInv, BellTyped
  <2> QED
    BY <1>0, <1>3, <2>1, Later DEF Poll, Before, Moment, BellInv, BellTyped
<1>4. ASSUME NEW t \in Tabs, PollFails(t) PROVE BellInv'
  <2>1. /\ polls' \in [Tabs -> [at : {"none", "sent", "counted"}, count : Nat, moment : Moments]]
        /\ \A s \in Tabs : Counted(s)' => Counted(s) /\ polls'[s] = polls[s]
    BY <1>0, <1>4 DEF PollFails, Counted, BellInv, BellTyped
  <2> QED
    BY <1>0, <1>4, <2>1, Later DEF PollFails, Before, Moment, BellInv, BellTyped
<1>5. ASSUME NEW t \in Tabs, Reload(t) PROVE BellInv'
  <2>1. /\ polls' \in [Tabs -> [at : {"none", "sent", "counted"}, count : Nat, moment : Moments]]
        /\ \A s \in Tabs : Counted(s)' => Counted(s) /\ polls'[s] = polls[s]
    BY <1>0, <1>5 DEF Reload, Counted, BellInv, BellTyped
  <2> QED
    BY <1>0, <1>5, <2>1, Later DEF Reload, Before, Moment, BellInv, BellTyped
<1>6. CASE UNCHANGED bellVars
  BY <1>0, <1>6, Later DEF bellVars, Before, Moment, Counted, BellInv, BellTyped
<1> QED
  BY <1>1, <1>2, <1>3, <1>4, <1>5, <1>6, UnreadCountInv, ArrivalInv DEF BellNext

-----------------------------------------------------------------------------
\* No tab plays a sound that another has played (notification-sound.ts:3),
\* whatever the number of tabs, polls, notifications and reads: beyond one
\* sound for each notification there is only one for each answer that was
\* acted on after a newer one.
THEOREM SoundsOnceHolds == BellSpec => []SoundsOnce
<1>1. BellInv => SoundsOnce
  <2> SUFFICES ASSUME BellInv PROVE SoundsOnce
    OBVIOUS
  <2>1. /\ newest.arrivals \in Nat /\ newest.arrivals <= arrivals /\ Owed \in {0, 1}
        /\ sounds \in Nat /\ late \in Nat /\ arrivals \in Nat
    BY DEF BellInv, BellTyped, AnswersTrue, Before, Moment, Moments, Owed
  <2> QED
    BY <2>1 DEF BellInv, SoundsBounded, SoundsOnce
<1> QED
  BY BellInitInv, BellNextInv, <1>1, PTL DEF BellSpec

-----------------------------------------------------------------------------
(* ValueLists. *)

\* A tab that has heard of every change is getting the list as it is, and shows
\* it once nothing is under way.
ListInv ==
    /\ fetch = [t \in Windows |-> fetch[t]]
    /\ heard = [t \in Windows |-> heard[t]]
    /\ shown = [t \in Windows |-> shown[t]]
    /\ \A m \in drags : {"tab", "at"} \subseteq DOMAIN m
    /\ \A t \in Windows :
           fetch[t].at = "answered" /\ ~ heard[t] => fetch[t].list = Listed
    /\ ListSettles

LEMMA ListInitInv == ListsInit => ListInv
BY DEF ListsInit, ListInv, ListSettles, None

\* A mutation that gets further is still one of its tab.
LEMMA BecomesInv ==
    ASSUME ListInv, NEW m \in drags, NEW step, Becomes(m, [m EXCEPT !.at = step]),
           UNCHANGED <<shown, fetch>>,
           (UNCHANGED <<order, heard>>) \/ Announced
    PROVE  ListInv'
<1>1. \A n \in drags' : {"tab", "at"} \subseteq DOMAIN n
  BY DEF Becomes, ListInv
<1>2. ASSUME NEW t \in Windows, \A n \in drags' : n.tab # t PROVE \A n \in drags : n.tab # t
  <2>1. [m EXCEPT !.at = step].tab = m.tab
    BY DEF ListInv
  <2> QED
    BY <1>2, <2>1 DEF Becomes
<1>3. CASE UNCHANGED <<order, heard>>
  <2>1. Listed' = Listed
    BY <1>3 DEF Listed
  <2> QED
    BY <1>1, <1>2, <1>3, <2>1 DEF ListInv, ListSettles
<1>4. CASE Announced
  BY <1>1, <1>4 DEF Announced, ListInv, ListSettles
<1> QED
  BY <1>3, <1>4

LEMMA SettleInv ==
    ASSUME ListInv, NEW m \in drags, Settle(m)
    PROVE  ListInv'
<1>1. Listed' = Listed /\ UNCHANGED heard /\ drags' = drags \ {m}
  BY DEF Settle, Listed
<1>2. /\ shown' = [shown EXCEPT ![m.tab] = IF m.at = "failed" THEN m.previous ELSE @]
      /\ fetch' = [fetch EXCEPT ![m.tab] = Sent]
  BY DEF Settle, RefetchAfter
<1>3. ASSUME NEW t \in Windows, t = m.tab PROVE fetch'[t] = Sent
  BY <1>2, <1>3 DEF ListInv
<1>4. ASSUME NEW t \in Windows, t # m.tab PROVE fetch'[t] = fetch[t] /\ shown'[t] = shown[t]
  BY <1>2, <1>4 DEF ListInv
<1>5. /\ fetch' = [t \in Windows |-> fetch'[t]]
      /\ shown' = [t \in Windows |-> shown'[t]]
  BY <1>2 DEF ListInv
<1> QED
  BY <1>1, <1>3, <1>4, <1>5 DEF ListInv, ListSettles, Sent, None

LEMMA ListNextInv == ListInv /\ [ListsNext]_listVars => ListInv'
<1> SUFFICES ASSUME ListInv, [ListsNext]_listVars PROVE ListInv'
  OBVIOUS
<1>1. ASSUME UNCHANGED order PROVE Listed' = Listed
  BY <1>1 DEF Listed
<1>2. CASE UNCHANGED listVars
  BY <1>1, <1>2 DEF listVars, ListInv, ListSettles
<1>3. ASSUME NEW v \in Values, StartCreateValue(v) PROVE ListInv'
  BY <1>1, <1>3 DEF StartCreateValue, ListInv, ListSettles
<1>4. ASSUME NEW v \in Values, CreateValue(v) PROVE ListInv'
  BY <1>4 DEF CreateValue, Announced, ListInv, ListSettles
<1>5. ASSUME NEW m \in drags, CheckOrder(m) \/ Reorder(m) \/ Fails(m) PROVE ListInv'
  <2>1. CASE CheckOrder(m)
    BY <2>1, BecomesInv DEF CheckOrder
  <2>2. CASE Reorder(m)
    BY <2>2, BecomesInv DEF Reorder
  <2>3. CASE Fails(m)
    BY <2>3, BecomesInv DEF Fails
  <2> QED
    BY <1>5, <2>1, <2>2, <2>3
<1>6. ASSUME NEW t \in Windows, Hear(t) PROVE ListInv'
  BY <1>1, <1>6 DEF Hear, ListInv, ListSettles, Sent, None
<1>7. ASSUME NEW t \in Windows, ReadList(t) PROVE ListInv'
  BY <1>1, <1>7 DEF ReadList, ListInv, ListSettles, Sent, None
<1>8. ASSUME NEW t \in Windows, ReceiveList(t) PROVE ListInv'
  BY <1>1, <1>8 DEF ReceiveList, ListInv, ListSettles, None
<1>9. ASSUME NEW t \in Windows, NEW from, NEW to, Drag(t, from, to) PROVE ListInv'
  <2> DEFINE ids == Moved(shown[t], from, to)
             m == [nr |-> dragged, tab |-> t, ids |-> ids, previous |-> shown[t], at |-> "sent"]
  <2>1. /\ drags' = drags \cup {m} /\ shown' = [shown EXCEPT ![t] = ids]
        /\ fetch' = [fetch EXCEPT ![t] = None] /\ UNCHANGED <<order, heard>>
    BY <1>9 DEF Drag
  <2>2. m.tab = t /\ {"tab", "at"} \subseteq DOMAIN m
    OBVIOUS
  <2> HIDE DEF ids, m
  <2> QED
    BY <1>1, <2>1, <2>2 DEF ListInv, ListSettles, None
<1> QED
  BY <1>2, <1>3, <1>4, <1>5, <1>6, <1>7, <1>8, <1>9, SettleInv DEF ListsNext

\* Whatever is dragged, created, refused or lost, in any number of tabs: a tab
\* with nothing under way shows the order of the database.
THEOREM ListSettlesHolds == ListsSpec => []ListSettles
BY ListInitInv, ListNextInv, PTL DEF ListsSpec, ListInv

-----------------------------------------------------------------------------
(* Pages. *)

Places == {"dashboard", "sales", "sale", "newSale", "editSale", "customers", "customer",
           "plans", "revenue", "users", "roles", "settings", "import", "batch", "notifications"}

OnAPage == place \in Places

LEMMA LinksArePlaces == Links \subseteq Places
<1>1. SidebarNav \subseteq Places
  <2>1. DOMAIN NAV_ITEMS \subseteq {"customers", "revenue", "users", "roles", "settings", "import"}
    BY DEF NAV_ITEMS
  <2> QED
    BY <2>1 DEF SidebarNav, Places
<1>2. AppLayout \subseteq Places
  BY <1>1 DEF AppLayout, MobileNav, PageHeader, NotificationsBell, NotificationRow, Places
<1>3. ASSUME NEW c, NEW S, S \subseteq Places PROVE When(c, S) \subseteq Places
  BY <1>3 DEF When
<1>4. /\ RecentSalesCard \subseteq Places /\ SalesTable \subseteq Places /\ NotificationRow \subseteq Places
      /\ {"newSale"} \subseteq Places /\ {"editSale"} \subseteq Places /\ {"customer"} \subseteq Places
      /\ {"batch"} \subseteq Places /\ {"import"} \subseteq Places
  BY DEF RecentSalesCard, SalesTable, NotificationRow, Places
<1> HIDE DEF Places
<1> QED
  BY <1>2, <1>4 DEF Links, When

LEMMA PlaceKept == OnAPage /\ [PagesNext]_pagesVars => OnAPage'
<1> SUFFICES ASSUME place \in Places, [PagesNext]_pagesVars PROVE place' \in Places
  BY DEF OnAPage
<1>1. ASSUME NEW p \in Links, Go(p) PROVE place' \in Places
  BY <1>1, LinksArePlaces DEF Go
<1>2. CASE RefreshMe \/ RefreshSale
  BY <1>2 DEF RefreshMe, RefreshSale
<1>3. ASSUME NEW key \in Catalog, Regrant(key) PROVE place' \in Places
  BY <1>3 DEF Regrant
<1>4. ASSUME NEW r \in OfOneSale, ChangeSale(r) \/ Press(r) PROVE place' \in Places
  BY <1>4 DEF ChangeSale, Press, Places
<1>5. CASE UNCHANGED pagesVars
  BY <1>5 DEF pagesVars
<1> QED
  BY <1>1, <1>2, <1>3, <1>4, <1>5 DEF PagesNext

\* What requests of one permission need.
LEMMA NeedsOfGroups ==
    /\ \A r \in UsersRequests : Needs(r) = {"users.manage"}
    /\ \A r \in RolesRequests : Needs(r) = {"roles.manage"}
    /\ \A r \in SettingsRequests : Needs(r) = {"settings.manage"}
    /\ \A r \in ImportsRequests : Needs(r) = {"imports.run"}
    /\ \A r \in PlansRequests : Needs(r) = {"plans.manage"}
<1> USE DEF Needs, When, SalesNeeds, ReportsNeeds, CustomersNeeds, UsersRequests, RolesRequests,
            SettingsRequests, ImportsRequests, PlansRequests, ReadCustomers, WriteCustomers
<1>1. \A r \in UsersRequests : Needs(r) = {"users.manage"}
  OBVIOUS
<1>2. \A r \in RolesRequests : Needs(r) = {"roles.manage"}
  OBVIOUS
<1>3. \A r \in SettingsRequests : Needs(r) = {"settings.manage"}
  OBVIOUS
<1>4. \A r \in ImportsRequests : Needs(r) = {"imports.run"}
  OBVIOUS
<1>5. \A r \in PlansRequests : Needs(r) = {"plans.manage"}
  OBVIOUS
<1> QED
  BY <1>1, <1>2, <1>3, <1>4, <1>5

\* What the rest needs.
LEMMA NeedsOfOthers ==
    /\ Needs("sales.create") = {"sales.create"}
    /\ Needs("sales.exportCsv") = {"reports.export"}
    /\ \A r \in {"sales.setStatus", "sales.cancel"} : Needs(r) = {"sales.change_status"}
    /\ \A r \in {"sales.update", "attachments.remove"} : Needs(r) = {"sales.edit"}
    /\ \A r \in {"sales.setAudit", "sales.setBrscan"} : Needs(r) = {"sales.audit"}
    /\ Needs("sales.setSeller") = {"sales.change_seller"}
    /\ \A r \in {"attachments.upload", "attachments.download", "sales.history", "sales.detail"} :
          Needs(r) = {}
    /\ Needs("reports.revenue") = {"reports.view"} /\ Needs("reports.revenueCsv") = {"reports.export"}
    /\ \A r \in WriteCustomers : Needs(r) = {"customers.edit"}
<1> USE DEF Needs, When, SalesNeeds, ReportsNeeds, CustomersNeeds, UsersRequests, RolesRequests,
            SettingsRequests, ImportsRequests, PlansRequests, ReadCustomers, WriteCustomers
<1>1. Needs("sales.create") = {"sales.create"} /\ Needs("sales.exportCsv") = {"reports.export"}
  OBVIOUS
<1>2. \A r \in {"sales.setStatus", "sales.cancel"} : Needs(r) = {"sales.change_status"}
  OBVIOUS
<1>3. \A r \in {"sales.update", "attachments.remove"} : Needs(r) = {"sales.edit"}
  OBVIOUS
<1>4. \A r \in {"sales.setAudit", "sales.setBrscan"} : Needs(r) = {"sales.audit"}
  OBVIOUS
<1>5. Needs("sales.setSeller") = {"sales.change_seller"}
  OBVIOUS
<1>6. \A r \in {"attachments.upload", "attachments.download", "sales.history", "sales.detail"} :
        Needs(r) = {}
  OBVIOUS
<1>7. Needs("reports.revenue") = {"reports.view"} /\ Needs("reports.revenueCsv") = {"reports.export"}
  OBVIOUS
<1>8. \A r \in WriteCustomers : Needs(r) = {"customers.edit"}
  OBVIOUS
<1> QED
  BY <1>1, <1>2, <1>3, <1>4, <1>5, <1>6, <1>7, <1>8

\* A request about no sale is admitted to whom has what it needs.
LEMMA AdmittedByRight ==
    ASSUME NEW r, r \notin OfOneSale, Needs(r) \subseteq granted
    PROVE  Admits(r)
BY DEF Admits, OfOneSale

\* What the page of a sale offers of the sale on display.
LEMMA SalePageAdmitted ==
    ASSUME known = granted, place = "sale", seen = sale, Visible(sale), NEW r \in SaleDetailPage
    PROVE  Admits(r)
<1>1. CASE r \in SaleActions(seen)
  <2> USE DEF SaleActions, When, Can
  <2>1. ~ sale.canceled
    BY <1>1
  <2>2. CASE r \in {"sales.setAudit", "sales.setBrscan"} /\ "sales.audit" \in granted
    BY <2>2, NeedsOfOthers DEF Admits
  <2>3. CASE r = "sales.update" /\ "sales.edit" \in granted
    BY <2>3, NeedsOfOthers DEF Admits
  <2>4. CASE r \in {"sales.setStatus", "sales.cancel"} /\ "sales.change_status" \in granted
    BY <2>1, <2>4, NeedsOfOthers DEF Admits
  <2>5. CASE r = "sales.setSeller" /\ "sales.change_seller" \in granted
    BY <2>5, NeedsOfOthers DEF Admits
  <2> QED
    BY <1>1, <2>2, <2>3, <2>4, <2>5
<1>2. CASE r \in SaleAttachments(seen) \cup {"sales.history", "sales.detail"}
  <2> USE DEF SaleAttachments, When, Can
  <2>1. CASE r \in {"attachments.download", "sales.history", "sales.detail"}
    BY <2>1, NeedsOfOthers DEF Admits
  <2>2. CASE r = "attachments.remove" /\ "sales.edit" \in granted
    BY <2>2, NeedsOfOthers DEF Admits
  <2>3. CASE r = "attachments.upload" /\ CanUpload(sale)
    BY <2>3, NeedsOfOthers DEF Admits
  <2> QED
    BY <1>2, <2>1, <2>2, <2>3 DEF CanUpload
<1> QED
  BY <1>1, <1>2 DEF SaleDetailPage, When

\* What the form of an existing sale asks for.
LEMMA EditAdmitted ==
    ASSUME known = granted, place = "editSale", seen \in {NoSale, Fetched},
           NEW r \in EditSalePage, r \notin DeadEnds
    PROVE  Admits(r)
<1>1. seen # NoSale
  BY DEF EditSalePage, DeadEnds, When
<1>2. seen = sale /\ Visible(sale)
  BY <1>1 DEF Fetched
<1>3. CASE r = "sales.detail"
  BY <1>2, <1>3, NeedsOfOthers DEF Admits
<1>4. CASE r = "sales.update"
  <2>1. Needs(r) \subseteq granted
    BY <1>4 DEF DeadEnds, Unasked
  <2> QED
    BY <1>2, <1>4, <2>1 DEF Admits, SavesMark
<1> QED
  BY <1>1, <1>3, <1>4 DEF EditSalePage, When

\* What the other pages offer needs a permission that the page has asked for, or
\* that the user has.
LEMMA PagesAdmitted ==
    ASSUME known = granted, place \in Places \ {"sale", "editSale"},
           NEW r \in Offered, r \notin DeadEnds
    PROVE  r \notin OfOneSale /\ Needs(r) \subseteq granted
<1> USE DEF When, Can
<1>0. ASSUME r \in Unasked PROVE r \notin OfOneSale /\ Needs(r) \subseteq granted
  <2>1. r \notin OfOneSale
    BY <1>0 DEF Unasked, OfOneSale, ReadCustomers, Places
  <2> QED
    BY <1>0, <2>1 DEF DeadEnds
<1>1. CASE place = "dashboard"
  <2>1. r \in Unasked \/ (r = "imports.list" /\ "imports.run" \in granted)
    BY <1>1 DEF Offered, Dashboard, Unasked
  <2> QED
    BY <1>0, <2>1, NeedsOfGroups DEF ImportsRequests, OfOneSale
<1>2. CASE place = "sales"
  <2>1. r \in Unasked \/ (r = "sales.exportCsv" /\ "reports.export" \in granted)
    BY <1>2 DEF Offered, SalesPage, Unasked
  <2> QED
    BY <1>0, <2>1, NeedsOfOthers DEF OfOneSale
<1>3. CASE place = "newSale"
  BY <1>0, <1>3 DEF Offered, NewSalePage, CustomerSearch, Unasked
<1>4. CASE place \in {"customers", "customer"}
  <2>1. r \in Unasked \/ (r \in WriteCustomers /\ "customers.edit" \in granted)
    BY <1>4 DEF Offered, CustomersPage, CustomerDetailPage, CustomerFormModal, Unasked
  <2> QED
    BY <1>0, <2>1, NeedsOfOthers DEF WriteCustomers, OfOneSale
<1>5. CASE place = "plans"
  <2>1. r \in PlansRequests /\ "plans.manage" \in granted
    BY <1>5 DEF Offered, PlansPage, PlanFormModal, PlansRequests
  <2> QED
    BY <2>1, NeedsOfGroups DEF PlansRequests, OfOneSale
<1>6. CASE place = "revenue"
  <2>1. \/ r \in Unasked
        \/ r = "reports.revenue" /\ "reports.view" \in granted
        \/ r = "reports.revenueCsv" /\ "reports.export" \in granted
    BY <1>6 DEF Offered, RevenuePage, RevenueContent, Unasked
  <2> QED
    BY <1>0, <2>1, NeedsOfOthers DEF OfOneSale
<1>7. CASE place = "users"
  <2>1. r \in Unasked \/ (r \in UsersRequests /\ "users.manage" \in granted)
    BY <1>7 DEF Offered, UsersPage, UserFormModal, UpdatePasswordModal, Unasked, UsersRequests
  <2> QED
    BY <1>0, <2>1, NeedsOfGroups DEF UsersRequests, OfOneSale
<1>8. CASE place = "roles"
  <2>1. r \in Unasked \/ (r \in RolesRequests /\ "roles.manage" \in granted)
    BY <1>8 DEF Offered, RolesPage, RoleFormModal, Unasked, RolesRequests
  <2> QED
    BY <1>0, <2>1, NeedsOfGroups DEF RolesRequests, OfOneSale
<1>9. CASE place = "settings"
  <2>1. r \in SettingsRequests /\ "settings.manage" \in granted
    BY <1>9 DEF Offered, SettingsPage, DomainValuesPanel, DomainValueModal, SystemSettingsPanel,
                 NotificationSoundSection, SettingsRequests
  <2> QED
    BY <2>1, NeedsOfGroups DEF SettingsRequests, OfOneSale
<1>10. CASE place = "import"
  <2>1. r \in ImportsRequests /\ "imports.run" \in granted
    BY <1>10 DEF Offered, ImportPage, UploadCard, BatchesTable, MappingsCard, ImportsRequests
  <2> QED
    BY <2>1, NeedsOfGroups DEF ImportsRequests, OfOneSale
<1>11. CASE place = "batch"
  <2>1. r \in ImportsRequests /\ "imports.run" \in granted
    BY <1>11 DEF Offered, BatchPage, ImportRowsTable, PendingValuesCard, ImportsRequests
  <2> QED
    BY <2>1, NeedsOfGroups DEF ImportsRequests, OfOneSale
<1>12. CASE place = "notifications"
  BY <1>12 DEF Offered
<1>13. \/ place \in {"dashboard", "sales", "newSale", "customers", "customer", "plans"}
       \/ place \in {"revenue", "users", "roles", "settings", "import", "batch", "notifications"}
  BY DEF Places
<1>14. CASE place \in {"dashboard", "sales", "newSale", "customers", "customer", "plans"}
  BY <1>1, <1>2, <1>3, <1>4, <1>5, <1>14
<1>15. CASE place \in {"revenue", "users", "roles", "settings", "import", "batch", "notifications"}
  BY <1>6, <1>7, <1>8, <1>9, <1>10, <1>11, <1>12, <1>15
<1> QED
  BY <1>13, <1>14, <1>15

\* Whatever permissions a user has and however they, the sale and the pages
\* change: with current copies, a page asks for and offers only what the API admits,
\* but for what nobody asked a right for and a sale that the user may not see.
THEOREM OfferedIsAdmittedHolds == PagesSpec => []OfferedIsAdmitted
<1>1. PagesInit => OnAPage
  BY DEF PagesInit, OnAPage, Places
<1>2. OnAPage => OfferedIsAdmitted
  <2> SUFFICES ASSUME place \in Places, known = granted, seen \in {NoSale, Fetched},
                      NEW r \in Offered, r \notin DeadEnds
               PROVE  Admits(r)
    BY DEF OfferedIsAdmitted, OnAPage
  <2>1. CASE place = "sale"
    <3>1. Offered = SaleDetailPage
      BY <2>1 DEF Offered
    <3>2. seen # NoSale
      BY <3>1 DEF SaleDetailPage, DeadEnds, When
    <3>3. seen = sale /\ Visible(sale)
      BY <3>2 DEF Fetched
    <3> QED
      BY <2>1, <3>1, <3>3, SalePageAdmitted
  <2>2. CASE place = "editSale"
    BY <2>2, EditAdmitted DEF Offered
  <2>3. CASE place \notin {"sale", "editSale"}
    BY <2>3, PagesAdmitted, AdmittedByRight
  <2> QED
    BY <2>1, <2>2, <2>3
<1> QED
  BY <1>1, <1>2, PlaceKept, PTL DEF PagesSpec
=============================================================================
