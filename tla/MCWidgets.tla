-------------------------------- MODULE MCWidgets --------------------------------
(***************************************************************************)
(* A small instance of Widgets: two editors and two menus of two items.    *)
(***************************************************************************)
EXTENDS Widgets
=============================================================================
