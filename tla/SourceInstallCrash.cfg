\* The process ends during an installation.
SPECIFICATION Spec
CONSTANTS
  dart = dart
  js = js
  json = json
  v1 = v1
  v2 = v2
  v3 = v3
  None = None
  Packages = {dart, js}
  Sidecars = {json}
  Versions = {v1, v2, v3}
  PackageOf <- MCPackageOf
  Faults = {"crash"}
PROPERTIES
  PackageKept
