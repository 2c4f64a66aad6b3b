------------------------------ MODULE ScopeIds ------------------------------
(***************************************************************************)
(* Whose memory a call is about, and the names things get because of it.   *)
(* A scope is a tenant and, maybe, a namespace inside it.  A string the    *)
(* code joins with separators is the sequence of its parts: the parts hold *)
(* no separator (Scope refuses '/' and '|', curated types are upper case   *)
(* and normalized names are not), so the two determine each other, and a   *)
(* digest stands for what is hashed.                                       *)
(***************************************************************************)
EXTENDS Naturals, Sequences

CONSTANTS
    Tenants, Namespaces,
    Root,           \* no namespace
    Locations,      \* bucket and key of a document
    Mentionable,    \* type, normalized name and salt of an entity
    Scope,          \* the scopes in use
    DefaultTenant,
    Reserved,       \* the first part of RESERVED_KEY_PREFIX
    RootPart, NamespacePart,    \* "root" and "ns", which tell the two kinds of path apart
    Parts           \* strings without a '/'

ASSUME ScopeAssumption ==
    /\ Root \notin Namespaces
    /\ Scope \subseteq [tenant : Tenants, namespace : Namespaces \cup {Root}]
    /\ [tenant |-> DefaultTenant, namespace |-> Root] \in Scope
    /\ RootPart # NamespacePart
    /\ Tenants \cup Namespaces \cup {Reserved, RootPart, NamespacePart} \subseteq Parts

Default == [tenant |-> DefaultTenant, namespace |-> Root]

\* "tenant" or "tenant/namespace"
ScopeKey(sc) ==
    IF sc.namespace = Root THEN <<sc.tenant>> ELSE <<sc.tenant, sc.namespace>>

\* what document_id and entity_id hash: the default scope's ids are the ones from before scopes
Minted(sc, what) == IF sc = Default THEN <<what>> ELSE <<ScopeKey(sc), what>>

OwnDocs(sc) == {Minted(sc, loc) : loc \in Locations}
OwnIds(sc) == {Minted(sc, m) : m \in Mentionable}
DocIds == UNION {OwnDocs(sc) : sc \in Scope}
EntityIds == UNION {OwnIds(sc) : sc \in Scope}

\* Wrong on purpose: the namespace is not told apart from the root of its tenant.
NamespaceAsKey(sc, key) ==
    IF sc = Default THEN key
    ELSE IF sc.namespace = Root THEN <<Reserved, sc.tenant>> \o key
    ELSE <<Reserved, sc.tenant, sc.namespace>> \o key

\* object_key: where a key lives in the bucket
ObjectPath(sc, key) ==
    IF sc = Default THEN key
    ELSE IF sc.namespace = Root THEN <<Reserved, sc.tenant, RootPart>> \o key
    ELSE <<Reserved, sc.tenant, NamespacePart, sc.namespace>> \o key

\* a default-scope key may not start with the reserved prefix
MayName(sc, key) == sc = Default => ~(Len(key) > 1 /\ key[1] = Reserved)
=============================================================================
