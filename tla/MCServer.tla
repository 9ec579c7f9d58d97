------------------------------- MODULE MCServer -------------------------------
(***************************************************************************)
(* The models of the API's smaller services, checked in one run: they share   *)
(* no state, so one of them moves and the others rest in one of their initial *)
(* states.                                                                    *)
(***************************************************************************)
EXTENDS DueCheck, Customers, Administration, Uploads, DemoData, PendingCsv, Revenue

VARIABLE part   \* the model that moves

serverVars ==
    <<part, dueVars, customersVars, adminVars, uploadVars, demoVars, csvVars, revenueVars>>

Parts == {"due", "customers", "admin", "uploads", "demo", "csv", "revenue"}

\* Five days about the end of a month.
MonthEnd == <<1, 2, 3, 1, 2>>

\* Without a message, or with one that needs quotes.
NoMessageOrOne == {<<>>, <<"letter", Separator>>}

Resting(p) ==
    /\ p = "due"   => dueDay = [s \in Sellers |-> Calendar[1]]
    /\ p = "admin" => roles = {} /\ ref = [u \in Users |-> 0]
    /\ p = "demo"  => now = CHOOSE hour \in NowHours : TRUE
    /\ p = "csv"   => text = <<>>

ServerInit ==
    /\ part \in Parts
    /\ DueInit /\ (part # "due" => Resting("due"))
    /\ CustomersInit
    /\ AdminInit /\ (part # "admin" => Resting("admin"))
    /\ UploadsInit
    /\ DemoInit /\ (part # "demo" => Resting("demo"))
    /\ CsvInit /\ (part # "csv" => Resting("csv"))
    /\ RevenueInit

ServerNext ==
    /\ UNCHANGED part
    /\ \/ part = "due" /\ DueNext
          /\ UNCHANGED <<customersVars, adminVars, uploadVars, demoVars, csvVars, revenueVars>>
       \/ part = "customers" /\ CustomersNext
          /\ UNCHANGED <<dueVars, adminVars, uploadVars, demoVars, csvVars, revenueVars>>
       \/ part = "admin" /\ AdminNext
          /\ UNCHANGED <<dueVars, customersVars, uploadVars, demoVars, csvVars, revenueVars>>
       \/ part = "uploads" /\ UploadsNext
          /\ UNCHANGED <<dueVars, customersVars, adminVars, demoVars, csvVars, revenueVars>>
       \/ part = "demo" /\ DemoNext
          /\ UNCHANGED <<dueVars, customersVars, adminVars, uploadVars, csvVars, revenueVars>>
       \/ part = "csv" /\ CsvNext
          /\ UNCHANGED <<dueVars, customersVars, adminVars, uploadVars, demoVars, revenueVars>>
       \/ part = "revenue" /\ RevenueNext
          /\ UNCHANGED <<dueVars, customersVars, adminVars, uploadVars, demoVars, csvVars>>

ServerSpec == ServerInit /\ [][ServerNext]_serverVars
=============================================================================
