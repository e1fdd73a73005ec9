----------------------------- MODULE MCRequests -----------------------------
EXTENDS Requests

(* One request, or more of them than dht11_event holds.                    *)
Of(k, s) == [kind |-> k, id |-> s]
Rows == {<<Of("HUMI", "10000")>>,
         <<Of("TEMP", "10000"), Of("HUMI", "2"), Of("TEMP", "10000")>>}

=============================================================================
