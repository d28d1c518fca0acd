---------------------------- MODULE MCAdminMirror ----------------------------
(***************************************************************************)
(* An instance of AdminMirror for TLC.                                     *)
(***************************************************************************)
EXTENDS AdminMirror, TLC

CONSTANTS shop, police, s1, s2, here, there

(* What the service of another server wrote that installed the plugin.      *)
MCForeignAudits == {<<"install", shop, 1>>}

MCSigners == shop :> s1 @@ police :> s2

(* After a package was installed and enabled, its bundle registered and     *)
(* deployed twice, its menu defined and the other server's value set, all  *)
(* of it in the database and what is this server's in the cache.           *)
Started ==
    /\ plugins = shop :> "active" /\ packages = {shop} /\ revokedSigners = {}
    /\ bundles = shop :> "registered"
    /\ history = shop :> <<"rolled_back", "active">>
    /\ config = 0 /\ audits = 2
    /\ writeQueue = <<>> /\ issued = 0 /\ applied = 0 /\ failed = FALSE
    /\ db = [EmptyTables EXCEPT
                !.plugins = shop :> "active", !.packages = shop :> s1,
                !.bundles = shop :> "registered", !.capabilities = shop :> "enabled",
                !.menus = shop :> "enabled",
                !.deployments = <<shop, 1, 1>> :> "rolled_back" @@ <<shop, 1, 2>> :> "active",
                !.config = <<there, 1>> :> MaxVersion + 1,
                !.audit = <<"package_install", shop, 1>> :> here @@ <<"enable", shop, 2>> :> here]
    /\ updates = <<>>
    /\ cache = Upserted(EmptyTables, [db EXCEPT !.config = Nothing], <<shop :> <<shop, 1, 2>>, Nothing>>)
    /\ life = 1
MCSpec == (Init \/ Started) /\ [][Next]_vars
=============================================================================
