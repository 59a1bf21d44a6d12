-------------------------- MODULE MCModuleSession --------------------------
(* Three inputs and three modules: p1 provides k1, p2 provides k2 or, as a *)
(* duplicate, k1, and p3 provides k3, implements k1 (and imports it), is   *)
(* the implementation partition k3, which nobody can import, or declares   *)
(* no module.  Each imports any two modules, so all cycles of up to three  *)
(* units occur; one file may have an error or be gone.  k3 may also be an  *)
(* artifact that needs k1, or one that cannot be used, and k2 and k3 may   *)
(* be artifacts that record each other (of files that all compile).        *)
EXTENDS ModuleSession, FiniteSets

CONSTANTS p1, p2, p3, k1, k2, k3

MCInputs == <<p3, p1, p2>>

MCDeclares ==
    {<<d2, d3>> : d2 \in {<<k2, TRUE>>, <<k1, TRUE>>},
                  d3 \in {<<k3, TRUE>>, <<k1, FALSE>>, <<k3, FALSE>>, <<None, FALSE>>}}

MCTexts == {<<"ok", "ok">>, <<"error", "ok">>, <<"gone", "ok">>, <<"ok", "gone">>}

MCImports ==
    {i \in [1..3 -> SUBSET Keys] : \A n \in 1..3 : Cardinality(i[n]) <= 2}

MCUnit(d, i, t) ==
    [key |-> d[1], interface |-> d[2], text |-> t,
     imports |-> IF d = <<k1, FALSE>> THEN i \cup {k1} ELSE i]

MCNoArtifacts == [k \in Keys |-> None]

MCArtifact(deps) == [valid |-> TRUE, deps |-> deps]

\* The files of k3, and the prebuilt artifacts of k3 and k2.
MCArtifacts ==
    {<<None, None, None>>,
     <<None, MCArtifact({k1}), None>>,
     <<[valid |-> FALSE, deps |-> {}], MCArtifact({}), None>>,
     <<None, MCArtifact({k2}), MCArtifact({k3})>>}

MCProjects ==
    {[unit |-> [p \in Paths |->
                  CASE p = p1 -> MCUnit(<<k1, TRUE>>, i[1], "ok")
                    [] p = p2 -> MCUnit(d[1], i[2], t[1])
                    [] p = p3 -> MCUnit(d[2], i[3], t[2])],
      files    |-> [MCNoArtifacts EXCEPT ![k3] = a[1]],
      prebuilt |-> [MCNoArtifacts EXCEPT ![k3] = a[2], ![k2] = a[3]]] :
        d \in MCDeclares, i \in MCImports,
        <<t, a>> \in {x \in MCTexts \X MCArtifacts :
                        x[2][3] = None \/ x[1] = <<"ok", "ok">>}}

=============================================================================
