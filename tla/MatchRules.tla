----------------------------- MODULE MatchRules -----------------------------
(* The rule of a collection call, adaptors/collection-adaptor.c: which     *)
(* objects match it, and what it says.                                     *)
EXTENDS AtkObjects

CONSTANTS
  Look,       \* Look[o]: the states, role, attributes and interfaces of o
  RoleTable,  \* spi_role_table: the AT-SPI number of an ATK role
  StateTable, \* atk_state_types: the ATK state of an AT-SPI state
  Rules       \* match rules that clients send

MatchType == {"all", "any", "none", "invalid"}

ASSUME RulesAssumption ==
  \A rule \in Rules :
    {rule.statematchtype, rule.attributematchtype, rule.rolematchtype,
     rule.interfacematchtype} \subseteq MatchType

\* spi_accessible_role_from_atk_role
SpiRole(role) == IF role \in DOMAIN RoleTable THEN RoleTable[role] ELSE "extended"

\* spi_atk_state_from_spi_state: what is not in the table is INVALID.
AtkState(s) == IF s \in DOMAIN StateTable THEN StateTable[s] ELSE "invalid"

(* The names child_interface_p knows; any other is not implemented by      *)
(* anything.                                                               *)
Checked == {"action", "component", "editabletext", "text", "hypertext", "image",
            "selection", "table", "value", "streamablecontent", "document"}

Implements(o, interface) == interface \in Checked /\ interface \in Look[o].interfaces

\* Mutant: a rule for interfaces that are all to be there takes any.
MatchInterfacesAny(o, rule) ==
  LET has == {i \in rule.interfaces : Implements(o, i)} IN
  \/ rule.interfacematchtype \in {"all", "any"} /\ has # {}
  \/ rule.interfacematchtype = "all" /\ rule.interfaces = {}
  \/ rule.interfacematchtype = "none" /\ has = {}

\* match_interfaces_lookup: "any" of none is FALSE, unlike below.
MatchInterfaces(o, rule) ==
  LET has == {i \in rule.interfaces : Implements(o, i)} IN
  \/ rule.interfacematchtype = "all" /\ has = rule.interfaces
  \/ rule.interfacematchtype = "any" /\ has # {}
  \/ rule.interfacematchtype = "none" /\ has = {}

(* match_states_lookup, on the states that read_mr has converted: "any" is *)
(* TRUE as soon as one of them is missing.                                 *)
MatchStates(o, rule) ==
  LET states == {AtkState(s) : s \in rule.states} IN
  \/ rule.statematchtype = "all" /\ states \subseteq Look[o].states
  \/ /\ rule.statematchtype = "any"
     /\ states = {} \/ ~(states \subseteq Look[o].states)
  \/ rule.statematchtype = "none" /\ states \cap Look[o].states = {}

(* match_roles_lookup: "any" converts the role of the object, "all" and    *)
(* "none" take its ATK number for an AT-SPI one.                           *)
MatchRoles(o, rule) ==
  \/ rule.rolematchtype = "all" /\ rule.roles \subseteq {Look[o].role}
  \/ /\ rule.rolematchtype = "any"
     /\ rule.roles = {} \/ SpiRole(Look[o].role) \in rule.roles
  \/ rule.rolematchtype = "none" /\ Look[o].role \notin rule.roles

(* match_attributes_lookup: the attributes of the rule are compared with   *)
(* themselves, once for every attribute of the object.                     *)
MatchAttributes(o, rule) ==
  LET flag == Look[o].attributes # {} IN
  \/ rule.attributematchtype \in {"all", "any"} /\ (rule.attributes = {} \/ flag)
  \/ rule.attributematchtype = "none" /\ (rule.attributes = {} \/ ~flag)

\* invert is read and not used.
Match(o, rule) ==
  /\ MatchInterfaces(o, rule) /\ MatchStates(o, rule)
  /\ MatchRoles(o, rule) /\ MatchAttributes(o, rule)

-----------------------------------------------------------------------------
\* rules that use nothing the code is known to misread
WellRead(rule) ==
  /\ rule.statematchtype = "any" => rule.states = {}
  /\ rule.attributes = {}
  /\ rule.interfaces \subseteq Checked
  /\ rule.interfacematchtype = "any" => rule.interfaces # {}
  /\ rule.states \subseteq DOMAIN StateTable
  /\ \A o \in Object : SpiRole(Look[o].role) = Look[o].role

Criterion(type, wanted, has) ==
  \/ wanted = {} /\ type # "invalid"
  \/ type = "all" /\ wanted \subseteq has
  \/ type = "any" /\ wanted \cap has # {}
  \/ type = "none" /\ wanted \cap has = {}

Meets(o, rule) ==
  /\ Criterion(rule.interfacematchtype, rule.interfaces, Look[o].interfaces)
  /\ Criterion(rule.statematchtype, {StateTable[s] : s \in rule.states}, Look[o].states)
  /\ Criterion(rule.rolematchtype, rule.roles, {SpiRole(Look[o].role)})
  /\ Criterion(rule.attributematchtype, rule.attributes, Look[o].attributes)
=============================================================================
