--------------------------- MODULE MC_MainlineTopo ---------------------------
(***************************************************************************)
(* Model-checking instances of MainlineTopo: the default spine            *)
(* business-set-module and one with a custom level c1 between business    *)
(* and set.                                                               *)
(***************************************************************************)
EXTENDS MainlineTopo

ModuleNode == [obj |-> "module", children |-> <<>>]
SetNode == [obj |-> "set", children |-> <<ModuleNode>>]

MCTreeDefault == [obj |-> "biz", children |-> <<SetNode>>]
MCSpineDefault == <<"biz", "set", "module">>

MCTreeCustom ==
    [obj |-> "biz", children |-> <<[obj |-> "c1", children |-> <<SetNode>>]>>]
MCSpineCustom == <<"biz", "c1", "set", "module">>

MCTreeNested ==
    [obj |-> "biz", children |->
        <<[obj |-> "c1", children |-> <<[obj |-> "c2", children |-> <<SetNode>>]>>]>>]
MCSpineNested == <<"biz", "c1", "c2", "set", "module">>
=============================================================================
