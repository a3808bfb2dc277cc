----------------------------- MODULE RatesFetch -----------------------------
(***************************************************************************)
(* FetchPairs of internal/ratesprovider/apilayer/apilayer.go: the pairs    *)
(* are grouped by base, one request per base is made in lexical order, the *)
(* first failure ends the call and drops what earlier requests returned.   *)
(*                                                                         *)
(* Kept: the loop, where each of its early returns leaves it, the counter  *)
(* rates_provider_requests_total by outcome, ok or not, which keys of a    *)
(* response are accepted.  Abstracted: prices, timestamps and messages;    *)
(* keys that are not six characters long, which are dropped, are in no     *)
(* response.                                                               *)
(***************************************************************************)
EXTENDS Naturals, Sequences, FiniteSets

CONSTANTS Pairs,     \* currency pairs <<base, quote>>
          Bases,     \* their bases, in lexical order
          Responses  \* the sets of pairs an upstream response may hold

(* byBase: the bases that some pair needs. *)
BasesOf(pairs) == {pair[1] : pair \in pairs}

ASSUME PairsFinite == IsFiniteSet(Pairs)
ASSUME BasesAssumption ==
    {Bases[i] : i \in DOMAIN Bases} = BasesOf(Pairs)
ASSUME ResponsesAssumption == Responses \subseteq SUBSET Pairs

VARIABLES fetch,    \* the call in progress
          okCount,  \* requests counted with outcome="ok"
          errCount  \* requests counted with any other outcome

fetchVars == <<fetch, okCount, errCount>>

ErrorCodes == {"transient", "permanent", "quota_exceeded"}

NoFetch == [pc |-> "idle", pairs |-> {}, todo |-> {}, quotes |-> {},
            code |-> "ok"]

(* The base the loop asks for next: the bases are sorted. *)
IsNext(base) ==
    \E i \in DOMAIN Bases :
        /\ Bases[i] = base
        /\ \A j \in 1..(i - 1) : Bases[j] \notin fetch.todo

FetchPairs(pairs) ==
    /\ fetch.pc = "idle"
    /\ fetch' = [NoFetch EXCEPT !.pc = "asking", !.pairs = pairs,
                                !.todo = BasesOf(pairs)]
    /\ UNCHANGED <<okCount, errCount>>

(* Keys of another base than the one asked for are skipped. *)
Accepted(base, response) == {pair \in response : pair[1] = base}

(* Mutant: the loop goes round once too often. *)
RequestOkOneMore ==
    /\ fetch.pc = "asking"
    /\ \E base \in fetch.todo, response \in Responses :
          /\ IsNext(base)
          /\ fetch' = [fetch EXCEPT
                !.todo = @ \ {base},
                !.quotes = @ \cup Accepted(base, response),
                !.pc = IF fetch.todo = {} THEN "returned" ELSE "asking"]
    /\ okCount' = okCount + 1
    /\ UNCHANGED errCount

(* The response to the request for the next base; it may lack pairs that   *)
(* were asked for and hold others.                                         *)
RequestOk ==
    /\ fetch.pc = "asking"
    /\ \E base \in fetch.todo, response \in Responses :
          /\ IsNext(base)
          /\ fetch' = [fetch EXCEPT
                !.todo = @ \ {base},
                !.quotes = @ \cup Accepted(base, response),
                !.pc = IF fetch.todo = {base} THEN "returned" ELSE "asking"]
    /\ okCount' = okCount + 1
    /\ UNCHANGED errCount

(* Mutant: the failed request is not counted. *)
RequestFailsUncounted ==
    /\ fetch.pc = "asking"
    /\ fetch' = [NoFetch EXCEPT !.pc = "returned", !.pairs = fetch.pairs,
                                !.code = "transient"]
    /\ UNCHANGED <<okCount, errCount>>

(* No response, a status other than 200, a malformed body: transient.      *)
(* success: false is an exceeded quota (code 104) or permanent.            *)
RequestFails ==
    /\ fetch.pc = "asking"
    /\ \E code \in ErrorCodes :
          fetch' = [NoFetch EXCEPT !.pc = "returned", !.pairs = fetch.pairs,
                                   !.code = code]
    /\ errCount' = errCount + 1
    /\ UNCHANGED okCount

(* Requests of the call so far, unless it has failed. *)
Asked ==
    IF fetch.code = "ok" THEN Cardinality(BasesOf(fetch.pairs) \ fetch.todo)
                         ELSE 0
=============================================================================
