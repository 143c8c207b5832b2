----------------------------- MODULE Environments -----------------------------
(***************************************************************************)
(* The configured GCP environments (internal/environments/registry.go):     *)
(* which configurations are accepted and what a selector resolves to. A     *)
(* name is a sequence of words, each in small or in capital letters; a      *)
(* project ID has no capitals. White space around names is left out.        *)
(***************************************************************************)
EXTENDS Integers, Sequences

Small(letters)   == [letters |-> letters, upper |-> FALSE]
Capital(letters) == [letters |-> letters, upper |-> TRUE]
Blank == <<>>

ToLower(name)   == [i \in DOMAIN name |-> Small(name[i].letters)]
EqualFold(a, b) == ToLower(a) = ToLower(b)

(* One configured environment; without an alias its alias is Blank.         *)
Environment(projectID, alias, default) ==
  [projectID |-> projectID, alias |-> alias, default |-> default]

Aliased(environment)     == environment.alias # Blank
DisplayName(environment) == IF Aliased(environment) THEN environment.alias ELSE environment.projectID

-----------------------------------------------------------------------------
ValidProjectIDs(input) ==
  /\ \A i \in DOMAIN input : input[i].projectID # Blank /\ input[i].projectID = ToLower(input[i].projectID)
  /\ \A i, j \in DOMAIN input : input[i].projectID = input[j].projectID => i = j

(* Mutant of ValidAliases: aliases that differ in their case are both kept. *)
ValidAliasesByCase(input) ==
  /\ Len(input) > 1 => \A i \in DOMAIN input : Aliased(input[i])
  /\ \A i, j \in DOMAIN input : (Aliased(input[i]) /\ input[i].alias = input[j].alias) => i = j

ValidAliases(input) ==
  /\ Len(input) > 1 => \A i \in DOMAIN input : Aliased(input[i])
  /\ \A i, j \in DOMAIN input :
       (Aliased(input[i]) /\ ToLower(input[i].alias) = ToLower(input[j].alias)) => i = j

NoAliasIsAProject(input) ==
  \A i, j \in DOMAIN input : Aliased(input[i]) => ~EqualFold(input[i].alias, input[j].projectID)

OneDefault(input) ==
  Len(input) = 1 \/ \E i \in DOMAIN input : \A j \in DOMAIN input : input[j].default <=> j = i

(* NewRegistry returns a registry for these and an error for all others.    *)
Accepted(input) ==
  /\ input # <<>>
  /\ ValidProjectIDs(input)
  /\ ValidAliases(input)
  /\ NoAliasIsAProject(input)
  /\ OneDefault(input)

Default(registry) ==
  IF Len(registry) = 1 THEN 1 ELSE CHOOSE i \in DOMAIN registry : registry[i].default

ByAlias(registry, selector) ==
  {i \in DOMAIN registry : Aliased(registry[i]) /\ ToLower(registry[i].alias) = ToLower(selector)}
ByProjectID(registry, selector) == {i \in DOMAIN registry : registry[i].projectID = selector}

(* Resolve: the index of an environment, or 0 where the code returns        *)
(* ErrUnknownEnvironment.                                                   *)
Resolve(registry, selector) ==
  CASE selector = Blank -> Default(registry)
    [] selector # Blank /\ ByAlias(registry, selector) # {} ->
         CHOOSE i \in ByAlias(registry, selector) : TRUE
    [] selector # Blank /\ ByAlias(registry, selector) = {} /\ ByProjectID(registry, selector) # {} ->
         CHOOSE i \in ByProjectID(registry, selector) : TRUE
    [] OTHER -> 0

(* Every environment is found by its project ID, and by its alias however   *)
(* the selector writes it.                                                  *)
FoundByItsNames(registry, Selectors) ==
  \A i \in DOMAIN registry :
    /\ Resolve(registry, registry[i].projectID) = i
    /\ \A selector \in Selectors \ {Blank} :
         (Aliased(registry[i]) /\ EqualFold(selector, registry[i].alias)) => Resolve(registry, selector) = i
=============================================================================
