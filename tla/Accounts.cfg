SPECIFICATION TenantSpec
CONSTANTS
    rootA = rootA
    rootB = rootB
    admin = admin
    staff = staff
    tenant = tenant
    superRole = superRole
    adminRole = adminRole
    employeeRole = employeeRole
    customRole = customRole
    staffRecord = staffRecord
    otherRecord = otherRecord
    Nobody = Nobody
    SystemOrganization = system
    Organizations = {system, tenant, vacant, later}
    vacant = vacant
    OrganizationCodes = {"SYSTEM", "TENANT", "VACANT", "NEW"}
    SystemCode = "SYSTEM"
    seeded <- MCSeeded
    Users = {rootA, rootB, admin, staff, fresh}
    Employees = {staffRecord, otherRecord}
    Roles = {superRole, adminRole, employeeRole, customRole, freshRole}
    Calls = {c1, c2}
    EmployeeOrganization <- MCEmployeeOrganization
SYMMETRY Interchangeable
INVARIANTS
    AccountsConsistent
    SessionsFollowPasswords
    ScreensFollowAccounts
    TenantsConsistent
PROPERTIES
    EmployeeRoleIsKept
