--------------------------- MODULE MCSpaceMirror ---------------------------
(* A release, a pre-release and a version whose chart lacks a value, of    *)
(* the kinds of entries config.yaml has.                                   *)
EXTENDS SpaceMirror

MCSemver == [v \in SpaceVersions |-> CASE v = "1.5.0" -> [minor |-> 5, pre |-> FALSE]
                                  [] v = "1.7.0" -> [minor |-> 7, pre |-> FALSE]
                                  [] OTHER -> [minor |-> 8, pre |-> TRUE]]
MCSubResources == <<[path |-> "uxp", chart |-> "universal-crossplane", image |-> "crossplane"],
                    [path |-> "kubernetes", image |-> "kube-apiserver"]>>
MCValues == [v \in SpaceVersions |-> [uxp |-> <<"1.16.0", "1.17.1">>,
                                 kubernetes |-> IF v = "1.5.0" THEN <<>> ELSE <<"1.29">>]]
MCImages == <<[image |-> "mxp-charts"], [image |-> "mxp-host-cluster", compatible |-> 0 .. 6],
              [image |-> "etcd", tag |-> "3.5.6-0", compatible |-> 0 .. 7],
              [image |-> "etcd", tag |-> "3.5.15-0", compatible |-> 8 .. 99],
              [image |-> "coredns", tag |-> "latest"]>>
=============================================================================
