--------------------------- MODULE AddressLookup ---------------------------
(***************************************************************************)
(* The postal code of an address form and the lookup that fills the form:   *)
(* use-postal-code-lookup.ts, address-fields.tsx and address-section.tsx in  *)
(* the client, PostalCodesService with its bounded cache and its two         *)
(* providers in the API.                                                    *)
(***************************************************************************)
EXTENDS Naturals, Sequences, FiniteSets

CONSTANTS
    Ceps,        \* complete postal codes
    CacheLimit,  \* CACHE_LIMIT of the service
    MaxLookups,  \* bound on the lookups
    NoCep        \* an incomplete or empty postal code

ASSUME LookupAssumption == CacheLimit \in Nat \ {0}

VARIABLES
    cep,         \* the postal code on display
    street,      \* the postal code that the address on display was filled for, or NoCep
    mounted,     \* the number of the AddressFields on display; 0 when none is
    mounts,      \* the AddressFields so far
    latestCep,   \* the postal code last looked up by the fields on display
    hint,        \* the status of the lookup
    lookups,     \* lookups under way
    asked,       \* the lookups so far
    fetched,       \* postal codes that the client has the address of
    cache        \* the cache of the service, the oldest entry first

lookupVars == <<cep, street, mounted, mounts, latestCep, hint, lookups, asked, fetched, cache>>

Providers == {"BrasilAPI", "ViaCEP"}

-----------------------------------------------------------------------------
(* The form. *)

NewLookup(c, fields, result) ==
    [nr |-> asked + 1, cep |-> c, fields |-> fields, result |-> result,
     said |-> [p \in Providers |-> "pending"]]

\* The requests of this client for a code.
Own(c) == {l \in lookups : l.cep = c /\ l.fields # {}}

\* A change of the postal code starts a lookup when it is complete, and joins
\* the one under way for the same code.  An address once known is not asked for.
TypeCep(c) ==
    /\ mounted # 0 /\ c # cep
    /\ cep' = c /\ latestCep' = c
    /\ hint' = IF c = NoCep THEN "idle" ELSE "loading"
    /\ IF c = NoCep
       THEN UNCHANGED <<lookups, asked>>
       ELSE IF Own(c) # {}
       THEN /\ lookups' = {IF l \in Own(c) THEN [l EXCEPT !.fields = @ \cup {mounted}] ELSE l :
                              l \in lookups}
            /\ UNCHANGED asked
       ELSE /\ asked < MaxLookups /\ asked' = asked + 1
            /\ lookups' = lookups \cup
                   {NewLookup(c, {mounted}, IF c \in fetched THEN "found" ELSE "sent")}
    /\ UNCHANGED <<street, mounted, mounts, fetched, cache>>

\* Another client asks the service.
OtherAsks(c) ==
    /\ asked < MaxLookups /\ asked' = asked + 1
    /\ lookups' = lookups \cup {NewLookup(c, {}, "sent")}
    /\ UNCHANGED <<cep, street, mounted, mounts, latestCep, hint, fetched, cache>>

\* The address on display is emptied while its fields stay: "Novo endereço"
\* again, or another source of the customer.
ClearAddress ==
    /\ mounted # 0
    /\ cep' = NoCep /\ street' = NoCep
    /\ UNCHANGED <<mounted, mounts, latestCep, hint, lookups, asked, fetched, cache>>

\* The fields disappear with a catalog address or another customer, and come
\* back empty; what is on its way for the old ones finds latestCep empty.
Hide ==
    /\ mounted # 0
    /\ mounted' = 0
    /\ cep' = NoCep /\ street' = NoCep /\ latestCep' = NoCep /\ hint' = "idle"
    /\ UNCHANGED <<mounts, lookups, asked, fetched, cache>>

Show ==
    /\ mounted = 0 /\ mounts < MaxLookups
    /\ mounts' = mounts + 1 /\ mounted' = mounts + 1
    /\ UNCHANGED <<cep, street, latestCep, hint, lookups, asked, fetched, cache>>

\* An answer is used whatever was typed since.
StillWantedAlways(l) == mounted \in l.fields

StillWanted(l) == mounted \in l.fields /\ latestCep = l.cep

\* The answer of a lookup reaches the fields that asked.
Found(l) ==
    /\ l.result = "found"
    /\ lookups' = lookups \ {l}
    /\ fetched' = IF l.fields = {} THEN fetched ELSE fetched \cup {l.cep}
    /\ IF StillWanted(l) THEN street' = l.cep /\ hint' = "idle"
                         ELSE UNCHANGED <<street, hint>>
    /\ UNCHANGED <<cep, mounted, mounts, latestCep, asked, cache>>

NotFilled(l) ==
    /\ l.result \in {"notFound", "failed"}
    /\ lookups' = lookups \ {l}
    /\ hint' = IF StillWanted(l) THEN l.result ELSE hint
    /\ UNCHANGED <<cep, street, mounted, mounts, latestCep, asked, fetched, cache>>

-----------------------------------------------------------------------------
(* The service. *)

Cached(c) == \E i \in DOMAIN cache : cache[i] = c

\* At the limit the oldest entry goes, even when c has an entry by now.
Remember(c) ==
    LET room == IF Len(cache) >= CacheLimit THEN Tail(cache) ELSE cache
    IN  IF \E i \in DOMAIN room : room[i] = c THEN room ELSE Append(room, c)

Set(l, m) == lookups' = (lookups \ {l}) \cup {m}

Ask(l) ==
    /\ l.result = "sent"
    /\ Set(l, [l EXCEPT !.result = IF Cached(l.cep) THEN "found" ELSE "asking"])
    /\ UNCHANGED <<cep, street, mounted, mounts, latestCep, hint, asked, fetched, cache>>

\* What one provider says; the timeout makes it fail.  The first address wins.
ProviderSays(l, p, word) ==
    /\ l.result = "asking" /\ l.said[p] = "pending"
    /\ Set(l, [l EXCEPT !.said[p] = word, !.result = IF word = "found" THEN "found" ELSE @])
    /\ cache' = IF word = "found" THEN Remember(l.cep) ELSE cache
    /\ UNCHANGED <<cep, street, mounted, mounts, latestCep, hint, asked, fetched>>

NotFoundEverywhere(l) == \A p \in Providers : l.said[p] = "notFound"

GiveUp(l) ==
    /\ l.result = "asking" /\ \A p \in Providers : l.said[p] # "pending"
    /\ Set(l, [l EXCEPT !.result = IF NotFoundEverywhere(l) THEN "notFound" ELSE "failed"])
    /\ UNCHANGED <<cep, street, mounted, mounts, latestCep, hint, asked, fetched, cache>>

LookupInit ==
    /\ cep = NoCep /\ street = NoCep /\ latestCep = NoCep
    /\ mounted = 1 /\ mounts = 1
    /\ hint = "idle" /\ lookups = {} /\ asked = 0
    /\ fetched = {} /\ cache = <<>>

LookupNext ==
    \/ \E c \in Ceps \cup {NoCep} : TypeCep(c)
    \/ \E c \in Ceps : OtherAsks(c)
    \/ ClearAddress \/ Hide \/ Show
    \/ \E l \in lookups :
           \/ Found(l) \/ NotFilled(l) \/ Ask(l) \/ GiveUp(l)
           \/ \E p \in Providers, word \in {"found", "notFound", "failed"} : ProviderSays(l, p, word)

LookupSpec == LookupInit /\ [][LookupNext]_lookupVars

-----------------------------------------------------------------------------
(* Properties. *)

\* However slow a lookup is and whatever the user does meanwhile, it fills only
\* an address with the postal code it was asked for, or one that was emptied
\* under it.
FilledForItsCep == [][street' # street => street' \in {cep, NoCep} \/ cep = NoCep]_lookupVars
=============================================================================
