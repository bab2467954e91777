---------------------------- MODULE FileGateway ----------------------------
(***************************************************************************)
(* The platform's file gateway as internal/filegatewayclient uses it.  The *)
(* gateway is external: what it does with a call is what the client's code *)
(* and comments rely on.  An upload is idempotent under its request id, so *)
(* a file is named by that id here.                                        *)
(*                                                                         *)
(* RetireUpload and Release are how callers clean up, and leave tombstones *)
(* that late calls run into.  Every call is sent while the caller waits,   *)
(* but the caller may give up (the client's timeout, a cancelled context,  *)
(* a process that stops) before the gateway has seen it: the call then     *)
(* stays in flight and may arrive at any later time, or never.             *)
(***************************************************************************)
EXTENDS Naturals, FiniteSets

CONSTANTS Uploads,         \* request ids of uploads
          MaxLate          \* bound: clean-up calls in flight at the same time

ASSUME GatewayAssumption == MaxLate \in Nat

VARIABLES
    upload,    \* request id -> state of the upload at the gateway
    binding,   \* request id -> state of its file's binding to the resource
    calls      \* calls in flight: <<operation, request id>>

gatewayVars == <<upload, binding, calls>>

Operations == {"upload", "bind", "retire", "release"}

GatewayInit ==
    /\ upload = [k \in Uploads |-> "none"]
    /\ binding = [k \in Uploads |-> "none"]
    /\ calls = {}

GatewayTypeOK ==
    /\ upload \in [Uploads -> {"none", "ready", "cancelled", "retired"}]
    /\ binding \in [Uploads -> {"none", "active", "released"}]
    /\ calls \in SUBSET (Operations \X Uploads)

Stored(k) == upload[k] \in {"ready", "retired"}      \* the file has an id
InFlight(op, k) == <<op, k>> \in calls

-----------------------------------------------------------------------------
(* What callers do, and what an answered clean-up call has done.           *)

\* The request leaves the client.
Send(op, k) == calls' = calls \cup {<<op, k>>}

\* RetireUpload, Release: a clean-up call that its caller stops waiting for.
SendLate(op, k) ==
    /\ Cardinality({c \in calls : c[1] \in {"retire", "release"}}) < MaxLate
    /\ Send(op, k)

\* RetireUpload: a request the gateway has not seen yet is cancelled for good.
RetireUpload(k) ==
    upload' = [upload EXCEPT ![k] =
                 CASE @ = "none" -> "cancelled" [] @ = "ready" -> "retired"
                   [] OTHER -> @]

\* Release, for a file with an id: its binding is deactivated, or kept from
\* ever becoming active.
Release(k) ==
    binding' = [binding EXCEPT ![k] = IF Stored(k) THEN "released" ELSE @]

-----------------------------------------------------------------------------
(* What the gateway does.                                                  *)

ReceiveUpload(k) ==
    /\ InFlight("upload", k)
    /\ upload' = [upload EXCEPT ![k] = IF @ = "none" THEN "ready" ELSE @]
    /\ calls' = calls \ {<<"upload", k>>}
    /\ UNCHANGED binding

ReceiveBind(k) ==
    /\ InFlight("bind", k)
    /\ binding' = [binding EXCEPT ![k] =
                     IF @ = "none" /\ Stored(k) THEN "active" ELSE @]
    /\ calls' = calls \ {<<"bind", k>>}
    /\ UNCHANGED upload

ReceiveRetire(k) ==
    /\ InFlight("retire", k)
    /\ RetireUpload(k)
    /\ calls' = calls \ {<<"retire", k>>}
    /\ UNCHANGED binding

ReceiveRelease(k) ==
    /\ InFlight("release", k)
    /\ Release(k)
    /\ calls' = calls \ {<<"release", k>>}
    /\ UNCHANGED upload

LoseCall(op, k) ==
    /\ InFlight(op, k)
    /\ calls' = calls \ {<<op, k>>}
    /\ UNCHANGED <<upload, binding>>

GatewayNext ==
    \E k \in Uploads : \/ ReceiveUpload(k) \/ ReceiveBind(k)
                       \/ ReceiveRetire(k) \/ ReceiveRelease(k)
                       \/ \E op \in Operations : LoseCall(op, k)
=============================================================================
