---------------------------- MODULE MCMacroPlayer ----------------------------
(* Model checking instance of MacroPlayer: a macro that plays once and      *)
(* ends with the button down on purpose, and two balanced ones.            *)
EXTENDS MacroPlayer

MCMacros == {[actions |-> <<"press">>, repeat |-> "Once"],
             [actions |-> <<"press", "lift">>, repeat |-> "Times"],
             [actions |-> <<"press", "lift">>, repeat |-> "UntilStopped"]}

=============================================================================
