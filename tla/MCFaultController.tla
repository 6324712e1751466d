-------------------------- MODULE MCFaultController --------------------------
(* Scenarios and bounds for checking FaultController with TLC.             *)
EXTENDS FaultController, TLC

CONSTANTS i1, i2, f1, f2, s1, s2, plugin, c1, c2

MCInjectorIds == {i1, i2}
MCFaultIds == {f1, f2}
MCRank == (i1 :> 1) @@ (i2 :> 0)
MCShapes == {s1, s2, plugin}
MCLoadableShapes == {s1, s2}
MCConfigs == {c1, c2}

Fault(f, i, c, startup, start, duration) ==
  [id |-> f, injector |-> i, config |-> c, startup |-> startup,
   start |-> start, duration |-> duration]

Layout == {[id |-> i1, shape |-> s1], [id |-> i2, shape |-> s2]}

\* One fault with a window, one active from the start.
Timed == [injectors |-> Layout,
          faults |-> <<Fault(f1, i1, c1, FALSE, 1, 2),
                       Fault(f2, i2, c1, TRUE, NoTime, 2)>>]

\* The same faults, left to manual control.
Manual == [injectors |-> Layout,
           faults |-> <<Fault(f1, i1, c2, FALSE, NoTime, NoTime),
                        Fault(f2, i2, c1, FALSE, NoTime, NoTime)>>]

\* f1 in both injectors and twice in i2, active at startup through one of its
\* definitions; f2 gone.
Shared == [injectors |-> Layout,
           faults |-> <<Fault(f1, i2, c1, FALSE, 1, NoTime),
                        Fault(f1, i1, c1, TRUE, NoTime, 1),
                        Fault(f1, i2, c2, FALSE, 0, 1)>>]

\* An injector whose plugin cannot be loaded: its fault is passed over.
Unloadable == [injectors |-> {[id |-> i1, shape |-> s1], [id |-> i2, shape |-> plugin]},
               faults |-> <<Fault(f1, i1, c1, FALSE, 2, 1),
                            Fault(f2, i2, c1, TRUE, NoTime, NoTime)>>]

\* Not compatible with Layout, or not valid.
FewerInjectors == [injectors |-> {[id |-> i1, shape |-> s1]},
                   faults |-> <<Fault(f1, i1, c1, TRUE, NoTime, NoTime)>>]
OtherShape == [injectors |-> {[id |-> i1, shape |-> s1], [id |-> i2, shape |-> s1]},
               faults |-> <<>>]
Dangling == [injectors |-> {[id |-> i1, shape |-> s1], [id |-> i1, shape |-> s2]},
             faults |-> <<Fault(f2, i2, c1, TRUE, NoTime, NoTime)>>]

\* Two windows in one injector, of which one is long and the other ends early
\* enough to see that it ended.
Windows == [injectors |-> Layout,
            faults |-> <<Fault(f1, i1, c1, FALSE, 1, 3),
                         Fault(f2, i1, c1, FALSE, 1, 2)>>]

\* A bounded fault that is active from the start, whatever its start says, and
\* one with a duration but nothing to activate it.
StartupAndManual == [injectors |-> Layout,
                     faults |-> <<Fault(f1, i1, c1, TRUE, 1, 3),
                                  Fault(f2, i2, c1, FALSE, NoTime, 2)>>]

\* What the node may be launched with, and what its file may hold at a reload.
TimedOnly == {Timed}
MCInitial == {Unloadable, FewerInjectors, Windows, StartupAndManual}
ToManual == {Manual, BadFile}
ReloadFiles == {Timed, Manual, Shared, Unloadable, FewerInjectors, OtherShape,
                Dangling, BadFile}
=============================================================================
