------------------------------- MODULE Pages -------------------------------
(***************************************************************************)
(* What the pages of the web client offer to a user, and what the API       *)
(* admits.  A page decides by its copy of the user's permissions ("me") and *)
(* by its copy of the sale it shows; the guard of the API                    *)
(* (permissions.guard.ts) and the services decide by the database.           *)
(*                                                                          *)
(* A request is named after the controller method that serves it; those     *)
(* that ask for a session alone are left out.  What a page fetches for      *)
(* itself counts as offered.  The permissions of a super admin are all of   *)
(* them.                                                                    *)
(***************************************************************************)
EXTENDS Naturals, FiniteSets

CONSTANTS
    RoleSets,    \* the sets of permissions that the user's role may have at first
    MaxRegrants, \* bound on the changes of the role
    MaxSaleMoves,\* bound on what others do to the sale
    NoSale       \* "no sale on display"

Catalog ==
    {"sales.create", "sales.edit", "sales.change_status", "sales.change_seller",
     "sales.edit_locked_fields", "sales.view_all", "sales.audit", "customers.view",
     "customers.view_document", "customers.edit", "plans.manage", "users.manage",
     "users.manage_passwords", "roles.manage", "reports.view", "reports.export",
     "imports.run", "notifications.collections", "notifications.all_sales", "settings.manage"}

VARIABLES
    granted,   \* the permissions of the user, in the database
    known,     \* the copy of them in the client
    sale,      \* a sale: is the user its seller, is it canceled, its BRScan mark
    seen,      \* the copy of it on the sale's pages, or NoSale
    place,     \* the page on display
    regrants, saleMoves  \* counters

pagesVars == <<granted, known, sale, seen, place, regrants, saleMoves>>

When(condition, requests) == IF condition THEN requests ELSE {}

-----------------------------------------------------------------------------
(* What the API requires: RequirePermission of each controller. *)

\* Every request that needs one permission, which the whole controller does.
UsersRequests    == {"users.list", "users.create", "users.update", "users.setStatus"}
RolesRequests    == {"roles.list", "roles.catalog", "roles.create", "roles.update", "roles.remove"}
SettingsRequests == {"values.list", "values.create", "values.update", "values.reorder",
                     "system.list", "system.update", "sound.info", "sound.save", "sound.remove"}
ImportsRequests  == {"imports.run", "imports.list", "imports.get", "imports.rows",
                     "imports.unresolved", "imports.pendingCsv", "imports.reprocess",
                     "imports.template", "mappings.list", "mappings.create", "mappings.remove"}
PlansRequests    == {"plans.create", "plans.update", "plans.setActive"}
ReadCustomers    == {"customers.list", "customers.detail", "customers.historyCsv"}
WriteCustomers   == {"customers.create", "customers.update"}

SalesNeeds(r) ==
    CASE r = "sales.create" -> {"sales.create"}
      [] r = "sales.exportCsv" -> {"reports.export"}
      [] r = "sales.update" -> {"sales.edit"}
      [] r \in {"sales.setStatus", "sales.cancel"} -> {"sales.change_status"}
      [] r = "sales.setSeller" -> {"sales.change_seller"}
      [] r \in {"sales.setAudit", "sales.setBrscan"} -> {"sales.audit"}
      [] r = "attachments.remove" -> {"sales.edit"}
      [] OTHER -> {}

ReportsNeeds(r) ==
    CASE r = "reports.revenue" -> {"reports.view"}
      [] r = "reports.revenueCsv" -> {"reports.export"}
      [] OTHER -> {}

CustomersNeeds(r) ==
    CASE r = "customers.search" -> {"customers.view", "sales.create"}
      [] r \in ReadCustomers -> {"customers.view"}
      [] r \in WriteCustomers -> {"customers.edit"}
      [] OTHER -> {}

Needs(r) ==
    When(r \in UsersRequests, {"users.manage"})
    \cup When(r = "users.setPassword", {"users.manage", "users.manage_passwords"})
    \cup When(r \in RolesRequests, {"roles.manage"})
    \cup When(r \in SettingsRequests, {"settings.manage"})
    \cup When(r \in ImportsRequests, {"imports.run"})
    \cup When(r \in PlansRequests, {"plans.manage"})
    \cup SalesNeeds(r) \cup ReportsNeeds(r) \cup CustomersNeeds(r)

\* The requests about one sale, which must be the user's own or visible to him.
OfOneSale == {"sales.detail", "sales.update", "sales.setStatus", "sales.cancel", "sales.setSeller",
              "sales.setAudit", "sales.setBrscan", "sales.history", "attachments.upload",
              "attachments.download", "attachments.remove"}

Visible(s) == "sales.view_all" \in granted \/ s.mine

CanUpload(s) == "sales.edit" \in granted \/ ("sales.create" \in granted /\ s.mine)

\* A saved form carries the BRScan mark of the copy it was filled from; one that
\* differs from the stored mark needs the permission to audit.
SavesMark == seen # NoSale /\ seen.brscan # sale.brscan

\* What guard and service answer to a request of the user.
Admits(r) ==
    /\ Needs(r) \subseteq granted
    /\ r \in OfOneSale => Visible(sale)
    /\ r = "sales.cancel" => ~ sale.canceled
    /\ r = "attachments.upload" => CanUpload(sale)
    /\ (r = "sales.update" /\ place = "editSale" /\ SavesMark) => "sales.audit" \in granted

-----------------------------------------------------------------------------
(* What the pages offer, by the client's copies. *)

Can(key) == key \in known

\* A page that forgets that a canceled sale is closed.
SaleActionsOpen(s) ==
    When(Can("sales.audit"), {"sales.setAudit", "sales.setBrscan"})
    \cup When(Can("sales.edit"), {"sales.update"})
    \cup When(Can("sales.change_status"), {"sales.setStatus", "sales.cancel"})
    \cup When(Can("sales.change_seller") /\ Can("users.manage"), {"sales.setSeller"})

SaleActions(s) ==
    When(~ s.canceled,
         When(Can("sales.audit"), {"sales.setAudit", "sales.setBrscan"})
         \cup When(Can("sales.edit"), {"sales.update"})
         \cup When(Can("sales.change_status"), {"sales.setStatus", "sales.cancel"})
         \cup When(Can("sales.change_seller") /\ Can("users.manage"), {"sales.setSeller"}))

SaleAttachments(s) ==
    {"attachments.download"}
    \cup When(Can("sales.edit"), {"attachments.remove"})
    \cup When(Can("sales.edit") \/ (Can("sales.create") /\ s.mine), {"attachments.upload"})

SaleDetailPage ==
    {"sales.detail"}
    \cup When(seen # NoSale, {"sales.history"} \cup SaleActions(seen) \cup SaleAttachments(seen))

SalesPage == {"users.list", "customers.list"} \cup When(Can("reports.export"), {"sales.exportCsv"})

CustomerFormModal == WriteCustomers

CustomersPage == {"customers.list", "users.list"} \cup When(Can("customers.edit"), CustomerFormModal)

CustomerDetailPage ==
    {"customers.detail", "customers.historyCsv"}
    \cup When(Can("customers.edit"), CustomerFormModal \ {"customers.create"})

PlanFormModal == {"plans.create", "plans.update"}

PlansPage == When(Can("plans.manage"), PlanFormModal \cup {"plans.setActive"})

RevenueContent ==
    {"reports.revenue", "users.list"} \cup When(Can("reports.export"), {"reports.revenueCsv"})

RevenuePage == When(Can("reports.view"), RevenueContent)

UserFormModal == {"roles.list", "users.create", "users.update"}

UpdatePasswordModal == {"users.setPassword"}

UsersPage ==
    {"users.list", "roles.list"}
    \cup When(Can("users.manage"), UserFormModal \cup {"users.setStatus"})
    \cup When(Can("users.manage_passwords"), UpdatePasswordModal)

RoleFormModal == {"roles.create", "roles.update"}

RolesPage ==
    {"roles.list", "roles.catalog"}
    \cup When(Can("roles.manage"), RoleFormModal \cup {"roles.remove"})

DomainValueModal == {"values.create", "values.update"}

DomainValuesPanel == {"values.list", "values.reorder"} \cup DomainValueModal

NotificationSoundSection == {"sound.info", "sound.save", "sound.remove"}

SystemSettingsPanel == {"system.list", "system.update"} \cup NotificationSoundSection

SettingsPage == When(Can("settings.manage"), DomainValuesPanel \cup SystemSettingsPanel)

UploadCard == {"imports.run", "imports.template"}

BatchesTable == {"imports.list"}

MappingsCard == {"mappings.list", "mappings.remove"}

ImportPage == When(Can("imports.run"), UploadCard \cup BatchesTable \cup MappingsCard)

ImportRowsTable == {"imports.rows", "imports.pendingCsv"}

PendingValuesCard == {"imports.unresolved", "mappings.create", "imports.reprocess"}

BatchPage ==
    When(Can("imports.run"),
         {"imports.get"} \cup ImportRowsTable \cup PendingValuesCard)

CustomerSearch == {"customers.search"}

NewSalePage == {"sales.create"} \cup When(Can("customers.view"), CustomerSearch)

EditSalePage == {"sales.detail"} \cup When(seen # NoSale, {"sales.update"})

Dashboard == {"reports.revenue"} \cup When(Can("imports.run"), {"imports.list"})

Offered ==
    CASE place = "dashboard" -> Dashboard
      [] place = "sales" -> SalesPage
      [] place = "sale" -> SaleDetailPage
      [] place = "newSale" -> NewSalePage
      [] place = "editSale" -> EditSalePage
      [] place = "customers" -> CustomersPage
      [] place = "customer" -> CustomerDetailPage
      [] place = "plans" -> PlansPage
      [] place = "revenue" -> RevenuePage
      [] place = "users" -> UsersPage
      [] place = "roles" -> RolesPage
      [] place = "settings" -> SettingsPage
      [] place = "import" -> ImportPage
      [] place = "batch" -> BatchPage
      [] place = "notifications" -> {}

\* Entries of the menu that need a permission.
NAV_ITEMS == [customers |-> "customers.view", revenue |-> "reports.view", users |-> "users.manage",
              roles |-> "roles.manage", settings |-> "settings.manage", import |-> "imports.run"]

SidebarNav == {"dashboard", "sales", "plans"} \cup {p \in DOMAIN NAV_ITEMS : Can(NAV_ITEMS[p])}

MobileNav == SidebarNav

\* A notification about a sale leads to it.
NotificationRow == {"sale"}

NotificationsBell == {"notifications"} \cup NotificationRow

PageHeader == NotificationsBell

\* What every page has around it.
AppLayout == SidebarNav \cup MobileNav \cup PageHeader

SalesTable == {"sale"}

RecentSalesCard == {"sale"}

\* Where else a page leads.
Links ==
    AppLayout
    \cup When(place = "dashboard", RecentSalesCard)
    \cup When(place = "sales", SalesTable)
    \cup When(place = "notifications", NotificationRow)
    \cup When(place \in {"dashboard", "sales"} /\ Can("sales.create"), {"newSale"})
    \cup When(place = "sale" /\ seen # NoSale /\ Can("sales.edit") /\ ~ seen.canceled, {"editSale"})
    \cup When(place = "customers", {"customer"})
    \cup When(place = "customer", {"newSale"})
    \cup When(place = "import" /\ Can("imports.run"), {"batch"})
    \cup When(place = "batch", {"import"})

-----------------------------------------------------------------------------
(* The steps. *)

\* The page of a sale shows it, or that there is no access.
Fetched == IF Visible(sale) THEN sale ELSE NoSale

Go(p) ==
    /\ p \in Links
    /\ place' = p
    /\ seen' = IF p \in {"sale", "editSale"} THEN Fetched ELSE NoSale
    /\ UNCHANGED <<granted, known, sale, regrants, saleMoves>>

\* The change of a role reaches the client, which fetches "me" again.
RefreshMe ==
    /\ known' = granted
    /\ UNCHANGED <<granted, sale, seen, place, regrants, saleMoves>>

\* The answer on display is fetched again; a form keeps what it was filled from.
RefreshSale ==
    /\ place = "sale"
    /\ seen' = Fetched
    /\ UNCHANGED <<granted, known, sale, place, regrants, saleMoves>>

\* An administrator edits the role of the user.
Regrant(key) ==
    /\ regrants < MaxRegrants
    /\ regrants' = regrants + 1
    /\ granted' = IF key \in granted THEN granted \ {key} ELSE granted \cup {key}
    /\ UNCHANGED <<known, sale, seen, place, saleMoves>>

\* What a request does to the sale.
After(r) ==
    CASE r = "sales.cancel" -> [sale EXCEPT !.canceled = TRUE]
      [] r = "sales.setSeller" -> [sale EXCEPT !.mine = ~ @]
      [] r = "sales.setBrscan" -> [sale EXCEPT !.brscan = ~ @]
      [] r = "sales.update" /\ place = "editSale" -> [sale EXCEPT !.brscan = seen.brscan]
      [] OTHER -> sale

\* Somebody else changes the sale.
ChangeSale(r) ==
    /\ saleMoves < MaxSaleMoves
    /\ saleMoves' = saleMoves + 1
    /\ r \in {"sales.cancel", "sales.setSeller", "sales.setBrscan"}
    /\ r = "sales.cancel" => ~ sale.canceled
    /\ sale' = After(r)
    /\ UNCHANGED <<granted, known, seen, place, regrants>>

\* The user asks for something the page offers; what is admitted is done, and
\* the page of the sale is shown anew.
Press(r) ==
    /\ r \in Offered /\ Admits(r)
    /\ saleMoves < MaxSaleMoves
    /\ sale' = After(r) /\ sale' # sale
    /\ saleMoves' = saleMoves + 1
    /\ place' = "sale"
    /\ seen' = IF "sales.view_all" \in granted \/ sale'.mine THEN sale' ELSE NoSale
    /\ UNCHANGED <<granted, known, regrants>>

PagesInit ==
    /\ granted \in RoleSets
    /\ known = granted
    /\ sale = [mine |-> TRUE, canceled |-> FALSE, brscan |-> FALSE]
    /\ seen = NoSale
    /\ place = "dashboard"
    /\ regrants = 0 /\ saleMoves = 0

PagesNext ==
    \/ \E p \in Links : Go(p)
    \/ RefreshMe \/ RefreshSale
    \/ \E key \in Catalog : Regrant(key)
    \/ \E r \in OfOneSale : ChangeSale(r) \/ Press(r)

PagesSpec == PagesInit /\ [][PagesNext]_pagesVars

-----------------------------------------------------------------------------
(* Properties. *)

\* Requests that a page makes or offers whoever opens it.  The dashboard fetches
\* the revenue; the pages of sales, customers and revenue fetch the users to
\* filter by, that of sales the customers too, and that of users the roles; the
\* pages of customers, users and roles fetch their lists; the customer's page
\* leads to the form of a new sale; the form of a sale stays open when the right
\* to edit it is gone; and the page of users offers to set passwords to whom may
\* set them but not manage users, which the API wants as well.
Unasked ==
    CASE place = "dashboard" -> {"reports.revenue"}
      [] place = "sales" -> {"users.list", "customers.list"}
      [] place = "newSale" -> {"sales.create", "customers.search"}
      [] place = "editSale" -> {"sales.update"}
      [] place = "customers" -> {"customers.list", "users.list"}
      [] place = "customer" -> {"customers.detail", "customers.historyCsv"}
      [] place = "revenue" -> {"users.list"}
      [] place = "users" -> {"users.list", "roles.list", "users.setPassword"}
      [] place = "roles" -> {"roles.list", "roles.catalog"}
      [] OTHER -> {}

\* The refusals of the code: of users who lack a right nobody asked them for,
\* and of those who come to a sale that they may not see.
DeadEnds ==
    {r \in Unasked : ~ Needs(r) \subseteq known} \cup When(seen = NoSale, {"sales.detail"})

\* When its copies are current, a page asks for and offers only what the API
\* does, but for the dead ends: any other refusal has a change behind it that
\* the page has not heard of.
OfferedIsAdmitted ==
    (known = granted /\ seen \in {NoSale, Fetched}) =>
        \A r \in Offered \ DeadEnds : Admits(r)
=============================================================================
