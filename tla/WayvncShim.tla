----------------------------- MODULE WayvncShim -----------------------------
(***************************************************************************)
(* libhaven_wayvnc_shim.c, which stands between wayvnc and                 *)
(* libwayland-client: every request of wayvnc goes through                 *)
(* wl_proxy_marshal_array_flags(), and a bind of one of two globals is     *)
(* answered with NULL and not sent.  The compositor announces its globals  *)
(* in any order, later ones too; wayvnc binds each one it knows and then   *)
(* captures with what it got, and may be started again.                    *)
(*                                                                         *)
(* A request has a class, an opcode and an argument args[1], which is a    *)
(* string in a bind only.                                                  *)
(***************************************************************************)
EXTENDS Integers

CONSTANTS
  NotString,    \* args[1] of another request: a file, or not even there
  MaxRequests   \* bound: how often the same request is made

VARIABLES
  announced,    \* the globals wayvnc has still to look at
  sent,         \* sent[r]: how many requests r wayvnc made
  made,         \* made[r]: how many of them gave it an object
  got,          \* got[r]: how many the compositor received
  capture,      \* "none", or what wayvnc has decided for
  wild          \* has something that is no string been read as one?

shimVars == <<announced, sent, made, got, capture, wild>>

BLOCKED == {"ext_image_copy_capture_manager_v1",
            "ext_output_image_capture_source_manager_v1"}
Screencopy == "zwlr_screencopy_manager_v1"
Interfaces == BLOCKED \cup {Screencopy, "wl_shm", "wl_output"}

ASSUME WayvncShimAssumption == NotString \notin Interfaces /\ MaxRequests \in Nat

Request(class, opcode, arg) == [class |-> class, opcode |-> opcode, arg |-> arg]
Bind(interface) == Request("wl_registry", 0, interface)
Others == {Request("wl_display", 0, NotString),     \* sync
           Request("wl_display", 1, NotString),     \* get_registry
           Request("wl_shm", 0, NotString)}         \* create_pool
Requests == {Bind(i) : i \in Interfaces} \cup Others

Nothing == [r \in Requests |-> 0]

ShimInit ==
  /\ announced = {}
  /\ sent = Nothing /\ made = Nothing /\ got = Nothing
  /\ capture = "none" /\ wild = FALSE

-----------------------------------------------------------------------------
(* A faulty variant of the definition below, to see that the property      *)
(* notices the mistake it is about.                                        *)

BlocksEveryBind(r) ==    \* no test of the name
  LET bind == r.opcode = 0 /\ r.class = "wl_registry"
  IN  /\ wild' = (wild \/ (bind /\ r.arg = NotString))
      /\ IF bind
         THEN UNCHANGED <<made, got>>
         ELSE /\ made' = [made EXCEPT ![r] = @ + 1]
              /\ got' = [got EXCEPT ![r] = @ + 1]

-----------------------------------------------------------------------------
(* The shim.  Its tests that the proxy, its class, the arguments and the   *)
(* name are there at all never fail for a request of libwayland's.         *)
wl_proxy_marshal_array_flags(r) ==
  LET bind == r.opcode = 0 /\ r.class = "wl_registry"
  IN  /\ wild' = (wild \/ (bind /\ r.arg = NotString))
      /\ IF bind /\ r.arg \in BLOCKED
         THEN UNCHANGED <<made, got>>
         ELSE /\ made' = [made EXCEPT ![r] = @ + 1]
              /\ got' = [got EXCEPT ![r] = @ + 1]

-----------------------------------------------------------------------------
(* The compositor and wayvnc (external) *)

(* Without a way to capture, wayvnc ends. *)
Running == capture # "impossible"

Announce(i) ==
  /\ Running
  /\ i \notin announced /\ sent[Bind(i)] < MaxRequests
  /\ announced' = announced \cup {i}
  /\ UNCHANGED <<sent, made, got, capture, wild>>

(* wayvnc makes a request. *)
Send(r) ==
  /\ sent' = [sent EXCEPT ![r] = @ + 1]
  /\ wl_proxy_marshal_array_flags(r)
  /\ UNCHANGED capture

(* wayvnc's handler of the event: it knows all of them. *)
Global(i) ==
  /\ i \in announced
  /\ announced' = announced \ {i}
  /\ Send(Bind(i))

OtherRequest(r) ==
  /\ Running
  /\ sent[r] < MaxRequests
  /\ Send(r)
  /\ UNCHANGED announced

(* After its roundtrip wayvnc takes the newer protocol if it can. *)
Has(interface) == made[Bind(interface)] > 0

Decide ==
  /\ announced = {} /\ capture = "none"
  /\ capture' = IF \A i \in BLOCKED : Has(i) THEN "ext"
                ELSE IF Has(Screencopy) THEN "screencopy"
                ELSE "impossible"
  /\ UNCHANGED <<announced, sent, made, got, wild>>

Again ==
  /\ capture # "none"
  /\ announced' = {} /\ capture' = "none"
  /\ sent' = Nothing /\ made' = Nothing /\ got' = Nothing
  /\ UNCHANGED wild

ShimNext ==
  \/ \E i \in Interfaces : Announce(i) \/ Global(i)
  \/ \E r \in Others : OtherRequest(r)
  \/ Decide \/ Again

-----------------------------------------------------------------------------
(* Lines 4 to 10: the shim hides the newer protocol "so it falls back to   *)
(* zwlr_screencopy_manager_v1".  In any order of the globals, wayvnc       *)
(* captures by screencopy if it ever bound that; a bind of the newer       *)
(* protocol gives it no object and does not reach the compositor, and each *)
(* other request reaches it and gives wayvnc its object.  No request but a *)
(* bind is searched for a name.                                            *)
FallsBack ==
  /\ capture \in {"none", IF sent[Bind(Screencopy)] > 0 THEN "screencopy"
                                                        ELSE "impossible"}
  /\ \A i \in BLOCKED : made[Bind(i)] = 0 /\ got[Bind(i)] = 0
  /\ \A r \in Requests \ {Bind(i) : i \in BLOCKED} : made[r] = sent[r] /\ got[r] = sent[r]
  /\ ~wild
=============================================================================
