\* File operations fail, but not those of a rollback.
SPECIFICATION Spec
CONSTANTS
  dart = dart
  js = js
  json = json
  v1 = v1
  v2 = v2
  v3 = v3
  None = None
  Packages = {dart, js}
  Sidecars = {json}
  Versions = {v1, v2, v3}
  PackageOf <- MCPackageOf
  Faults = {"stage", "backup", "publish", "verify", "load"}
INVARIANTS
  TypeOK
  PriorRecoverable
PROPERTIES
  ImplementsSourcePackage
