---------------------------- MODULE ConfigLayers ----------------------------
(***************************************************************************)
(* config.rs.  A layer (ConfigFile) is a function on the fields it sets; a *)
(* file that does not exist sets none.  Every setting is a text; those of  *)
(* ssh and rsync become lists of words when the layers have been merged.   *)
(***************************************************************************)
EXTENDS Texts

Lists  == {"ssh_args", "rsync_args"}
Fields == Lists \cup {"host", "remote_root", "pull_artifacts"}

Default == [host |-> <<"meta">>, remote_root |-> <<"~", "/", "rcargo-builds">>,
            ssh_args |-> <<>>, rsync_args |-> <<>>, pull_artifacts |-> <<"false">>]

Setting(layers, f) == {n \in DOMAIN layers : f \in DOMAIN layers[n]}
AllSet(layers)     == UNION {DOMAIN layers[n] : n \in DOMAIN layers}

(* Seeded fault: the first layer that sets a field keeps it.               *)
merge_layersFirst(layers) ==
  [f \in AllSet(layers) |-> layers[Min(Setting(layers, f))][f]]

(* A later layer wins, field by field.                                     *)
merge_layers(layers) ==
  [f \in AllSet(layers) |-> layers[Max(Setting(layers, f))][f]]

Typed(layer) ==
  [f \in DOMAIN layer |-> IF f \in Lists THEN SplitArgs(layer[f]) ELSE layer[f]]

(* unwrap_or: what layer does not set is that of base.                     *)
Over(base, layer) ==
  [f \in DOMAIN base \cup DOMAIN layer |-> IF f \in DOMAIN layer THEN layer[f] ELSE base[f]]

apply_defaults(file) == Over(Default, Typed(file))

apply_overrides(cfg, overrides) == Over(cfg, Typed(overrides))

(* The environment sets what is in it, be it an empty text; there is no    *)
(* variable for pull_artifacts.                                            *)
env_layer(env) == [f \in DOMAIN env \ {"pull_artifacts"} |-> env[f]]

load(user, project, env) ==
  apply_defaults(merge_layers(<<user, project, env_layer(env)>>))

sanity_check(cfg) ==
  /\ ~Blank(cfg.remote_root) /\ cfg.remote_root # <<"/">>
  /\ ~Blank(cfg.host)
=============================================================================
