-------------------------------- MODULE MCWeb --------------------------------
(***************************************************************************)
(* The models of the pages and forms of the browser, checked in one run:     *)
(* they share no state, so one of them moves and the others rest in one of    *)
(* their initial states.                                                      *)
(***************************************************************************)
EXTENDS Pages, SaleForm, SaleEdit, AddressLookup, Bell, ValueLists

VARIABLE part   \* the model that moves

webVars == <<part, pagesVars, formVars, editVars, lookupVars, bellVars, listVars>>

Parts == {"pages", "form", "edit", "lookup", "bell", "lists"}

\* Every permission; every one but one; one alone.
EachPermission == {Catalog} \cup {Catalog \ {k} : k \in Catalog} \cup {{k} : k \in Catalog}

Resting(p) ==
    /\ p = "pages" => granted = Catalog
    /\ p = "form"  => /\ mayView /\ mayEdit
                      /\ record = [x \in People |-> Nobody] /\ rows = [x \in People |-> 0]
    /\ p = "edit"  => stored = CHOOSE row \in Rows : TRUE
    /\ p = "edit"  => viewer
    /\ p = "bell"  => unread = 0 /\ announced = NoCount
    /\ p = "lists" => order = [v \in Values |-> 0]

WebInit ==
    /\ part \in Parts
    /\ PagesInit /\ (part # "pages" => Resting("pages"))
    /\ FormInit /\ (part # "form" => Resting("form"))
    /\ SaleEditInit /\ (part # "edit" => Resting("edit"))
    /\ LookupInit
    /\ BellInit /\ (part # "bell" => Resting("bell"))
    /\ ListsInit /\ (part # "lists" => Resting("lists"))

WebNext ==
    /\ UNCHANGED part
    /\ \/ part = "pages" /\ PagesNext
          /\ UNCHANGED <<formVars, editVars, lookupVars, bellVars, listVars>>
       \/ part = "form" /\ FormNext
          /\ UNCHANGED <<pagesVars, editVars, lookupVars, bellVars, listVars>>
       \/ part = "edit" /\ SaleEditNext
          /\ UNCHANGED <<pagesVars, formVars, lookupVars, bellVars, listVars>>
       \/ part = "lookup" /\ LookupNext
          /\ UNCHANGED <<pagesVars, formVars, editVars, bellVars, listVars>>
       \/ part = "bell" /\ BellNext
          /\ UNCHANGED <<pagesVars, formVars, editVars, lookupVars, listVars>>
       \/ part = "lists" /\ ListsNext
          /\ UNCHANGED <<pagesVars, formVars, editVars, lookupVars, bellVars>>

WebSpec == WebInit /\ [][WebNext]_webVars
=============================================================================
