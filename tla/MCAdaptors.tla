----------------------------- MODULE MCAdaptors -----------------------------
(* The main loop answers one call after another, to a collection or to     *)
(* another adaptor.  The objects of the one and of the other are apart.    *)
EXTENDS Collection, AdaptorCalls
CONSTANTS a, b, c, d, e, window, text, link

Shape(f) == [o \in Object |-> IF o \in DOMAIN f THEN f[o] ELSE <<>>]

TwoTrees ==
  {Shape((a :> <<b, c>>) @@ (b :> <<d, e>>)),
   Shape((a :> <<b>>) @@ (b :> <<c, d>>))}

Looks(states, role, attributes, interfaces) ==
  [states |-> states, role |-> role, attributes |-> attributes, interfaces |-> interfaces]

FiveLooks ==
  (a :> Looks({"focused"}, "frame", {}, {"component"})) @@
  (b :> Looks({"focused", "visible"}, "frame", {"id"}, {"component", "hyperlink"})) @@
  (c :> Looks({}, "button", {}, {"component", "text"})) @@
  (d :> Looks({"visible"}, "button", {}, {"text", "action"})) @@
  (e :> Looks({"visible", "focused"}, "button", {"id"}, {}))

Roles == ("frame" :> "frame") @@ ("button" :> "button")
States == ("focused" :> "focused") @@ ("visible" :> "visible")

All == [states |-> {}, statematchtype |-> "all", attributes |-> {},
        attributematchtype |-> "all", roles |-> {}, rolematchtype |-> "all",
        interfaces |-> {}, interfacematchtype |-> "all"]

SomeRules ==
  {All,
   [All EXCEPT !.states = {"focused", "visible"}, !.statematchtype = "none"],
   [All EXCEPT !.states = {"focused"}, !.statematchtype = "any"],
   [All EXCEPT !.roles = {"button"}, !.states = {"visible"}, !.rolematchtype = "none"],
   [All EXCEPT !.interfaces = {"component", "text"}, !.states = {"visible"}],
   [All EXCEPT !.interfaces = {"action", "text"}, !.interfacematchtype = "any",
               !.roles = {"button", "frame"}, !.rolematchtype = "any"],
   [All EXCEPT !.interfaces = {"hyperlink"}, !.attributes = {"id"},
               !.interfacematchtype = "none"],
   [All EXCEPT !.rolematchtype = "invalid", !.statematchtype = "any"],
   [All EXCEPT !.attributematchtype = "invalid", !.roles = {"button"}]}

Implementations ==
  (window :> {"Component", "Action", "Selection", "Table", "Document", "Image"}) @@
  (text :> {"Component", "Text", "EditableText", "Hypertext", "Hyperlink", "Value"}) @@
  (link :> {"Action"})

MCInit == CollectionInit /\ AdaptorInit
MCNext ==
  \/ AdaptorInit /\ CollectionNext /\ UNCHANGED adaptorVars
  \/ Idle /\ Len(children[a]) = 1 /\ AdaptorNext /\ UNCHANGED collectionVars
MCSpec ==
  MCInit /\ [][MCNext]_<<collectionVars, adaptorVars>> /\ WF_collectionVars(Walk)
=============================================================================
