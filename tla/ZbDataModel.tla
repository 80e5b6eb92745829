---------------------------- MODULE ZbDataModel ----------------------------
(***************************************************************************)
(* The data model that the Zigbee console builds: "dm add" and "zha add"   *)
(* fill the endpoint list, "dm register" hands it to the stack, "start"    *)
(* and "bdb_comm start" start the stack.  An endpoint list maps endpoints  *)
(* to cluster lists, these map clusters to sets of attributes.             *)
(***************************************************************************)
CONSTANTS Endpoints, Clusters, Attrs,
          HaClusters,   \* clusters of the device that "zha add" creates
          None          \* an option that is not given, a pointer that is NULL

ASSUME DmAssumption == /\ None \notin Endpoints \cup Clusters \cup Attrs
                       /\ HaClusters \subseteq Clusters

VARIABLES ep_list,   \* of s_console_ctx->cli_ctx
          device,    \* the list the stack has registered
          started,   \* esp_zb_is_started
          ret        \* of the last of these commands

dmVars == <<ep_list, device, started, ret>>

Empty == [x \in {} |-> {}]
\* An entry of a list that is new, or replaced.
Put(f, k, v) == [x \in DOMAIN f \cup {k} |-> IF x = k THEN v ELSE f[x]]

DmInit == ep_list = Empty /\ device = None /\ started = FALSE /\ ret = "ok"

\* After a restart the application manages a new endpoint list.
DmReset == ep_list' = Empty /\ device' = None /\ started' = FALSE /\ ret' = "ok"

Result(ok, list) == [ok |-> ok, list |-> list]

zcl_add_attribute(attrs, a, fails) ==
  IF a = None THEN Result(TRUE, attrs)
  ELSE IF fails = "attr" THEN Result(FALSE, attrs)
  ELSE Result(TRUE, attrs \cup {a})

\* Mutant: the created cluster is registered before its attribute is added.
ClusterFirst(clusters, c, a, fails) ==
  IF c = None THEN Result(TRUE, clusters)
  ELSE LET attrs == IF c \in DOMAIN clusters THEN clusters[c] ELSE {}
           added == zcl_add_attribute(attrs, a, fails)
       IN  IF c \notin DOMAIN clusters /\ fails = "cluster" THEN Result(FALSE, clusters)
           ELSE Result(added.ok, Put(clusters, c, added.list))

\* A cluster that is in the list is changed in place; one that is not enters
\* the list when its attribute was added.
zcl_add_cluster(clusters, c, a, fails) ==
  IF c = None THEN Result(TRUE, clusters)
  ELSE LET known == c \in DOMAIN clusters
           added == zcl_add_attribute(IF known THEN clusters[c] ELSE {}, a, fails)
           ok    == added.ok /\ (known \/ fails # "cluster")
       IN  Result(ok, IF known \/ ok THEN Put(clusters, c, added.list) ELSE clusters)

zcl_add_endpoint(list, e, c, a, fails) ==
  IF e = None THEN Result(TRUE, list)
  ELSE LET known == e \in DOMAIN list
           added == zcl_add_cluster(IF known THEN list[e] ELSE Empty, c, a, fails)
           ok    == added.ok /\ (known \/ fails # "endpoint")
       IN  Result(ok, IF known \/ ok THEN Put(list, e, added.list) ELSE list)

\* cli_dm_add: an attribute is read only with a cluster, a cluster only with
\* an endpoint; "fails" names the call of the stack that refuses.
DmAdd(e, c, a, fails) ==
  /\ e = None => c = None
  /\ c = None => a = None
  /\ IF ep_list = None THEN ret' = "not_supported" /\ UNCHANGED ep_list
     ELSE LET r == zcl_add_endpoint(ep_list, e, c, a, fails)
          IN  ep_list' = r.list /\ ret' = IF r.ok THEN "ok" ELSE "add_failed"
  /\ UNCHANGED <<device, started>>

\* zha_add_device: a device for an endpoint that there is not.
ZhaAdd(e) ==
  /\ IF ep_list = None THEN ret' = "not_supported" /\ UNCHANGED ep_list
     ELSE IF e \in DOMAIN ep_list THEN ret' = "add_failed" /\ UNCHANGED ep_list
     ELSE ep_list' = Put(ep_list, e, [c \in HaClusters |-> {}]) /\ ret' = "ok"
  /\ UNCHANGED <<device, started>>

\* cli_dm_register; esp_zb_device_register may refuse the list.
DmRegister ==
  /\ IF ep_list = None \/ started
     THEN ret' = "not_supported" /\ UNCHANGED <<ep_list, device>>
     ELSE \/ device' = ep_list /\ ep_list' = None /\ ret' = "ok"
          \/ ret' = "register_failed" /\ UNCHANGED <<ep_list, device>>
  /\ UNCHANGED started

\* cli_dm_write and cli_dm_read: an attribute of the registered device.
DmAccess(e, c, a) ==
  /\ ret' = IF ep_list # None THEN "invalid_state"
            ELSE IF /\ e \in DOMAIN device /\ c \in DOMAIN device[e]
                    /\ a \in device[e][c] THEN "ok"
            ELSE "not_found"
  /\ UNCHANGED <<ep_list, device, started>>

\* cli_start, and cli_bdb_start when the stack is not started.
StartStack == /\ ~started
              /\ \/ started' = TRUE /\ ret' = "ok"
                 \/ ret' = "start_failed" /\ UNCHANGED started
              /\ UNCHANGED <<ep_list, device>>

DmNext ==
  \/ \E e \in Endpoints \cup {None}, c \in Clusters \cup {None}, a \in Attrs \cup {None},
        fails \in {"none", "attr", "cluster", "endpoint"} : DmAdd(e, c, a, fails)
  \/ \E e \in Endpoints : ZhaAdd(e)
  \/ \E e \in Endpoints, c \in Clusters, a \in Attrs : DmAccess(e, c, a)
  \/ DmRegister \/ StartStack

-----------------------------------------------------------------------------
ClusterLists == UNION { [cs -> SUBSET Attrs] : cs \in SUBSET Clusters }
EpLists      == UNION { [es -> ClusterLists] : es \in SUBSET Endpoints }

\* The lists stay lists.
DmTypeOK == /\ ep_list \in EpLists \cup {None}
            /\ device \in EpLists \cup {None}
            /\ started \in BOOLEAN

\* A "dm add" or "zha add" that fails, at whichever of the nested lists, has
\* added nothing: no endpoint without its cluster, no cluster half made.
AddAtomic == [][ret' = "add_failed" => ep_list' = ep_list]_dmVars
=============================================================================
