---- MODULE MCArtifactory ----
(* Small instances of Artifactory. *)
EXTENDS Artifactory
\* Packages of three years; the older the year, the later the week.
SomePacks == {<<2020, 9, 9>>, <<2021, 5, 2>>, <<2022, 1, 1>>, <<2022, 2, 1>>}
OldPacks == {<<2020, 9, 9>>, <<2021, 5, 2>>}
====
