-------------------------- MODULE MCLauncherDialogs --------------------------
(* Instances of LauncherDialogs for TLC: a project with two versions and two *)
(* artifacts, one with a version of the same name and one artifact, one that *)
(* is not configured.                                                        *)
EXTENDS LauncherDialogs

MCProjects == <<"first", "second", "bare">>
MCVersions == [first |-> <<"one", "two">>, second |-> <<"one">>, bare |-> <<"three">>]
MCArtifacts == <<"api", "core">>
MCHas == [first |-> [one |-> {"api", "core"}, two |-> {"core"}],
          second |-> [one |-> {"core"}],
          bare |-> [three |-> {}]]
MCConfigured == [first |-> {"api", "core"}, second |-> {"core"}, bare |-> {}]
MCAssembled == [first |-> {"api", "core"}, second |-> {"core"}, bare |-> {}]
=============================================================================
